---- MODULE Spec2Model ----
(***************************************************************************)
(* Model of the transaction packing, signer resolution and execution code  *)
(* of marinade-common-rs-cli:                                              *)
(*   - the two TransactionBuilder implementations                          *)
(*       marinade-client-rs/src/transactions/transaction_builder.rs        *)
(*       transaction-utils/src/transaction_builder.rs                      *)
(*   - SignatureBuilder and PreparedTransaction                            *)
(*   - the blockhash retry loop of transaction_executors.rs                *)
(*   - execute_transaction_builder and the anchor-builder entry points      *)
(*     of anchor_executors.rs                                              *)
(* The wire size of a transaction is computed byte for byte as bincode     *)
(* serialises a solana_sdk Transaction (compact-u16 lengths, 64-byte       *)
(* signature slots, 32-byte keys and blockhash).                           *)
(***************************************************************************)
EXTENDS Integers, Sequences, FiniteSets, TLC

VARIABLES
    variant,                   \* which TransactionBuilder implementation
    fee_payer,                 \* TransactionBuilder.fee_payer
    signers,                   \* SignatureBuilder.signers (the registered pubkeys)
    is_check_signers,          \* TransactionBuilder.is_check_signers
    max_transaction_size,      \* TransactionBuilder.max_transaction_size
    instruction_packs,         \* TransactionBuilder.instruction_packs
    current_instruction_pack,  \* TransactionBuilder.current_instruction_pack (OnceCell)
    result,                    \* outcome of the last builder call
    prepared,                  \* the PreparedTransaction the last call returned, if any
    sign_log,                  \* history: the sign calls made on prepared and their outcome
    pc,                        \* position in the blockhash retry loop
    blockhash_failure_retries, \* the retry budget (-1 for None)
    retry_count,               \* retry_count: u16
    last_error,                \* last_error of the retry loop
    latest_hash,               \* latest_hash of the running attempt
    ret,                       \* what the retry loop returned
    observed,                  \* history: the error the most recent attempt ended with
    fetches,                   \* history: get_latest_blockhash calls made
    signs,                     \* history: sign calls made by the loop
    submits,                   \* history: send_and_confirm calls made
    run,                       \* the execute_transaction_builder call in progress
    anchor,                    \* the anchor-builder pipeline call in progress
    caller,                    \* the caller packing instructions by commit on overflow
    lookup                     \* the get_account_retrying call in progress

bvars == <<variant, fee_payer, signers, is_check_signers, max_transaction_size,
           instruction_packs, current_instruction_pack, result, prepared>>

xvars == <<sign_log, pc, blockhash_failure_retries, retry_count, last_error,
           latest_hash, ret, observed, fetches, signs, submits, run, anchor,
           caller, lookup>>

vars == <<bvars, xvars>>

-----------------------------------------------------------------------------
(* Bounds of the model *)

\* instructions held by a builder at once, packs in its queue at once
MaxInstructions == 3
MaxPacks == 3
\* sign calls a caller makes on one PreparedTransaction
MaxSigns == 3
\* the largest retry budget of the executor runs explored in full
MaxRetries == 2

-----------------------------------------------------------------------------
(* Pubkeys. Their numeric order is the byte order of the keys. *)

FeePayer == 1
K1 == 2
K2 == 3
AccA == 4
Prog == 5

PACKET_DATA_SIZE == 1232
U16_MAX == 65535
SIGNATURE_BYTES == 64
PUBKEY_BYTES == 32
HASH_BYTES == 32
MESSAGE_HEADER_LENGTH == 3

Meta(k, s, w) == [pubkey |-> k, is_signer |-> s, is_writable |-> w]
Instruction(p, accs, n) == [program_id |-> p, accounts |-> accs, data_len |-> n]

\* ixA: a large payload, one writable signer and one account that never signs;
\* two of them measure exactly PACKET_DATA_SIZE with the fee payer, three do not fit.
\* ixB: no payload and three read-only signers, K2 before K1 in account order.
ixA == Instruction(Prog, <<Meta(AccA, FALSE, TRUE), Meta(K1, TRUE, TRUE)>>, 463)
ixB == Instruction(Prog, <<Meta(K2, TRUE, FALSE), Meta(K1, TRUE, FALSE),
                            Meta(FeePayer, TRUE, FALSE)>>, 0)

Instructions == {ixA, ixB}

\* the description a caller of transaction-utils passes with an instruction
DescriptionOf(ix) == IF ix = ixA THEN "a" ELSE "b"

\* the keypairs the caller registers with add_signer (the fee payer's is
\* registered by the constructor)
CallerKeypairs == {K1, K2}

\* the maximum sizes a builder is constructed with: unlimited(), a bound below
\* the size of an empty transaction, limited()
MaxSizeChoices == {0, 100, PACKET_DATA_SIZE}

-----------------------------------------------------------------------------
(* Message compilation and serialized size *)

RECURSIVE SortedSeq(_)
SortedSeq(S) ==
    IF S = {} THEN <<>>
    ELSE LET m == CHOOSE x \in S : \A y \in S : x <= y
         IN <<m>> \o SortedSeq(S \ {m})

RECURSIVE SumSeq(_)
SumSeq(s) == IF s = <<>> THEN 0 ELSE Head(s) + SumSeq(Tail(s))

RECURSIVE Flatten(_)
Flatten(ss) == IF ss = <<>> THEN <<>> ELSE Head(ss) \o Flatten(Tail(ss))

Range(s) == {s[i] : i \in DOMAIN s}

\* a pack element: the instruction and its description (transaction-utils keeps
\* the pair, marinade-client-rs the instruction alone)
Elem(i, d) == [ix |-> i, description |-> d]

\* the metas of a list of instructions
MetasOf(ixs) == UNION {Range(ixs[i].ix.accounts) : i \in DOMAIN ixs}
ProgramIdsOf(ixs) == {ixs[i].ix.program_id : i \in DOMAIN ixs}

\* payer first, then writable signers, readonly signers, writable non-signers and
\* readonly non-signers, each by key; flags are OR-ed over every occurrence of a
\* key and a program id alone is a readonly non-signer
CompileAccountKeys(ixs, payer) ==
    LET metas == MetasOf(ixs)
        ks == ({m.pubkey : m \in metas} \cup ProgramIdsOf(ixs)) \ {payer}
        sg == {m.pubkey : m \in {x \in metas : x.is_signer}}
        wr == {m.pubkey : m \in {x \in metas : x.is_writable}}
    IN <<payer>> \o SortedSeq(ks \cap sg \cap wr) \o SortedSeq((ks \cap sg) \ wr)
               \o SortedSeq((ks \cap wr) \ sg) \o SortedSeq((ks \ sg) \ wr)

NumRequiredSignatures(ixs, payer) ==
    Cardinality({payer} \cup {m.pubkey : m \in {x \in MetasOf(ixs) : x.is_signer}})

\* Hash::default() and Signature::default()
DefaultHash == 0
DefaultSignature == [signer |-> 0, blockhash |-> 0]

\* Transaction::new_with_payer: the message and one default signature per slot
NewWithPayer(ixs, payer) ==
    LET n == NumRequiredSignatures(ixs, payer)
    IN [instructions |-> ixs,
        account_keys |-> CompileAccountKeys(ixs, payer),
        num_required_signatures |-> n,
        recent_blockhash |-> DefaultHash,
        signatures |-> [i \in 1..n |-> DefaultSignature]]

\* length of a compact-u16 (short_vec) length prefix
ShortVecLen(n) == IF n < 128 THEN 1 ELSE IF n < 16384 THEN 2 ELSE 3

InstructionSize(ix) ==
    1 + ShortVecLen(Len(ix.accounts)) + Len(ix.accounts)
      + ShortVecLen(ix.data_len) + ix.data_len

\* bincode::serialize(&transaction).unwrap().len()
SerializedSize(tx) ==
    ShortVecLen(Len(tx.signatures))
    + SIGNATURE_BYTES * Len(tx.signatures)
    + MESSAGE_HEADER_LENGTH
    + ShortVecLen(Len(tx.account_keys)) + PUBKEY_BYTES * Len(tx.account_keys)
    + HASH_BYTES
    + ShortVecLen(Len(tx.instructions))
    + SumSeq([i \in DOMAIN tx.instructions |-> InstructionSize(tx.instructions[i].ix)])

-----------------------------------------------------------------------------
(* Builder state *)

NoPack == [some |-> FALSE, pack |-> <<>>]
\* a cell that loses the last element of the pack it is given
SomePackWithoutLast(p) == [some |-> TRUE, pack |-> SubSeq(p, 1, Len(p) - 1)]

SomePack(p) == [some |-> TRUE, pack |-> p]

NoPrepared ==
    [some |-> FALSE, transaction |-> NewWithPayer(<<>>, FeePayer),
     signers |-> <<>>, instruction_descriptions |-> <<>>]

\* the outcome of a call: its status, the pubkey it carries (an UnknownSigner, a
\* registered key) and, for a build call, the number of packs it took off the queue
ResN(op, status, key, consumed) ==
    [op |-> op, status |-> status, key |-> key, consumed |-> consumed]
Res(op, status, key) == ResN(op, status, key, 0)

Alive == result.status # "Panic"

\* TransactionBuilder::new of marinade-client-rs: the current pack is set at once
InitClient ==
    /\ variant = "client"
    /\ current_instruction_pack = SomePack(<<>>)

\* TransactionBuilder::new of transaction-utils: no pack is open
InitUtils ==
    /\ variant = "utils"
    /\ current_instruction_pack = NoPack

\* the error a retry loop starts with
UnknownRetryFailure ==
    [kind |-> "RpcRequestError", tx_err |-> "None",
     message |-> "send_transaction: unknown retry failure"]

NoReturn ==
    [status |-> "none", error |-> UnknownRetryFailure, signature |-> DefaultSignature]

\* the outcome of a pipeline call: not returned yet, Ok(()), or the error bailed with
NoOutcome == [status |-> "none", error |-> UnknownRetryFailure]

\* no execute_transaction_builder call is in progress
NoRun ==
    [at |-> "idle", simulate |-> FALSE, print |-> FALSE, started |-> <<>>,
     expected |-> <<>>,
     printed |-> <<>>, yielded |-> <<>>, number_of_transactions |-> 0,
     simulated |-> <<>>, simulation_result |->
        [ok |-> TRUE, kind |-> "Response", err |-> "None", logs |-> <<>>],
     emitted |-> <<>>, confirmed |-> 0, warned |-> FALSE, outcome |-> NoOutcome]

\* no anchor-builder pipeline call is in progress
NoAnchor ==
    [at |-> "idle", entry |-> "none", simulate |-> FALSE, print_only |-> FALSE,
     given |-> <<>>, builders |-> <<>>, taken |-> 0, printed |-> <<>>,
     simulated |-> <<>>, sent |-> <<>>, failed |-> <<>>, emitted |-> <<>>,
     count |-> 0, warned |-> FALSE, outcome |-> NoOutcome]

\* no get_account_retrying call
NoLookup ==
    [at |-> "idle", account_pubkey |-> 0, commitment |-> "none",
     failing |-> 0, forever |-> FALSE, stored |-> "None",
     failed_calls |-> 0, returned |-> "none"]

\* no caller is packing
NoCaller ==
    [at |-> "idle", instruction |-> 0, k |-> 0, n |-> 0, added |-> 0, failures |-> 0,
     again |-> FALSE]

\* no retry loop is running
ExecIdle ==
    /\ sign_log = <<>>
    /\ pc = "idle"
    /\ blockhash_failure_retries = -1
    /\ retry_count = 0
    /\ last_error = UnknownRetryFailure
    /\ latest_hash = DefaultHash
    /\ ret = NoReturn
    /\ observed = UnknownRetryFailure
    /\ fetches = 0
    /\ signs = 0
    /\ submits = 0
    /\ lookup = NoLookup
    /\ run = NoRun
    /\ anchor = NoAnchor
    /\ caller = NoCaller

Init ==
    /\ ExecIdle
    /\ fee_payer = FeePayer
    /\ signers = {FeePayer}
    /\ is_check_signers = TRUE
    /\ max_transaction_size \in MaxSizeChoices
    /\ instruction_packs = <<>>
    /\ (InitClient \/ InitUtils)
    /\ result = Res("new", "Ok", 0)
    /\ prepared = NoPrepared

-----------------------------------------------------------------------------
(* SignatureBuilder *)

contains_key(key) == key \in signers

\* SignatureBuilder::signers_for_transaction: the capability of every key of a
\* signature slot, in slot order, or the first key that has none
SlotKeys(tx) == SubSeq(tx.account_keys, 1, tx.num_required_signatures)

MissingSlots(tx) == {i \in DOMAIN SlotKeys(tx) : ~contains_key(SlotKeys(tx)[i])}

\* a resolution that skips the fee payer's slot
signers_for_transaction_no_payer(tx) ==
    IF MissingSlots(tx) = {}
    THEN [ok |-> TRUE, signers |-> Tail(SlotKeys(tx)), key |-> 0]
    ELSE [ok |-> FALSE, signers |-> <<>>, key |-> 0]

signers_for_transaction(tx) ==
    IF MissingSlots(tx) = {}
    THEN [ok |-> TRUE, signers |-> SlotKeys(tx), key |-> 0]
    ELSE [ok |-> FALSE, signers |-> <<>>,
          key |-> SlotKeys(tx)[CHOOSE i \in MissingSlots(tx) :
                                  \A j \in MissingSlots(tx) : i <= j]]

\* an insert that drops the entry of a key already present
InsertToggle(registry, k) ==
    IF k \in registry THEN registry \ {k} ELSE registry \cup {k}

\* self.signers.insert(pubkey, signer): the map holds one entry per key, an
\* entry of the same key is replaced
Insert(registry, k) == registry \cup {k}

\* TransactionBuilder::add_signer / SignatureBuilder::add_signer
add_signer(k) ==
    /\ Alive
    /\ UNCHANGED xvars
    /\ prepared' = NoPrepared
    /\ signers' = Insert(signers, k)
    /\ result' = Res("add_signer", "Ok", k)
    /\ UNCHANGED <<variant, fee_payer, is_check_signers, max_transaction_size,
                   instruction_packs, current_instruction_pack>>

\* TransactionBuilder::add_signer_checked: add_signer unless the key is present
add_signer_checked(k) ==
    /\ Alive
    /\ UNCHANGED xvars
    /\ variant = "client"
    /\ prepared' = NoPrepared
    /\ signers' = IF k \notin signers THEN Insert(signers, k) ELSE signers
    /\ result' = Res("add_signer_checked", "Ok", k)
    /\ UNCHANGED <<variant, fee_payer, is_check_signers, max_transaction_size,
                   instruction_packs, current_instruction_pack>>

\* TransactionBuilder::fee_payer_signer: get_signer(&self.fee_payer()).unwrap()
fee_payer_signer == IF contains_key(fee_payer) THEN "Some" ELSE "Panic"

\* TransactionBuilder::with_no_signers_check
with_no_signers_check ==
    /\ Alive
    /\ UNCHANGED xvars
    /\ prepared' = NoPrepared
    /\ variant = "client"
    /\ is_check_signers' = FALSE
    /\ signers' = {}
    /\ result' = Res("with_no_signers_check", "Ok", 0)
    /\ UNCHANGED <<variant, fee_payer, max_transaction_size, instruction_packs,
                   current_instruction_pack>>

-----------------------------------------------------------------------------
(* check_signers *)

UnknownSignerPositions(ix) ==
    {i \in DOMAIN ix.accounts :
        ix.accounts[i].is_signer /\ ~contains_key(ix.accounts[i].pubkey)}

\* the unregistered signer with the smallest key instead of the first in order
SmallestUnknownSigner(ix) ==
    CHOOSE k \in {ix.accounts[i].pubkey : i \in UnknownSignerPositions(ix)} :
        \A i \in UnknownSignerPositions(ix) : k <= ix.accounts[i].pubkey

\* the first signer-flagged account, in account order, that is not registered
FirstUnknownSigner(ix) ==
    ix.accounts[CHOOSE i \in UnknownSignerPositions(ix) :
                   \A j \in UnknownSignerPositions(ix) : i <= j].pubkey

\* marinade-client-rs check_signers: skipped when is_check_signers is off
\* a check that lets every instruction pass
check_signers_off(ix) == TRUE

\* a check that wants every account of the instruction registered
check_signers_every_account(ix) ==
    IF ~is_check_signers THEN TRUE
    ELSE \A i \in DOMAIN ix.accounts : contains_key(ix.accounts[i].pubkey)

check_signers(ix) ==
    IF ~is_check_signers THEN TRUE ELSE UnknownSignerPositions(ix) = {}

\* transaction-utils check_signers: always checks
utils_check_signers(ix) == UnknownSignerPositions(ix) = {}

-----------------------------------------------------------------------------
(* Pack operations *)

Pop(p) == SubSeq(p, 1, Len(p) - 1)

\* instructions held by the builder: the queue and the open pack
Held == Len(Flatten(instruction_packs)) + Len(current_instruction_pack.pack)

PackSize(pack) == SerializedSize(NewWithPayer(pack, fee_payer))

\* a size test that rejects a candidate of exactly the maximum size
TooBigAtLimit(pack) ==
    /\ max_transaction_size > 0
    /\ SerializedSize(NewWithPayer(pack, fee_payer)) >= max_transaction_size

TooBig(pack) ==
    /\ max_transaction_size > 0
    /\ SerializedSize(NewWithPayer(pack, fee_payer)) > max_transaction_size

\* a rollback that forgets to remove the instruction
ClientRollbackNoPop(pushed) == pushed

\* what add_instruction leaves in the current pack when the candidate is too big
ClientRollback(pushed) == Pop(pushed)

\* marinade-client-rs TransactionBuilder::add_instruction
AddInstruction(ix) ==
    /\ prepared' = NoPrepared
    /\ variant = "client"
    /\ Held < MaxInstructions
    /\ IF ~check_signers(ix)
       THEN /\ result' = Res("add_instruction", "UnknownSigner", FirstUnknownSigner(ix))
            /\ UNCHANGED current_instruction_pack
       ELSE IF ~current_instruction_pack.some
       THEN \* current_instruction_pack.get_mut().unwrap() on an empty cell
            /\ result' = Res("add_instruction", "Panic", 0)
            /\ UNCHANGED current_instruction_pack
       ELSE LET pushed == Append(current_instruction_pack.pack,
                                 Elem(ix, DescriptionOf(ix)))
            IN IF TooBig(pushed)
               THEN /\ current_instruction_pack' = SomePack(ClientRollback(pushed))
                    /\ result' = Res("add_instruction", "TooBigTransaction", 0)
               ELSE /\ current_instruction_pack' = SomePack(pushed)
                    /\ result' = Res("add_instruction", "Ok", 0)
    /\ UNCHANGED <<variant, fee_payer, signers, is_check_signers, max_transaction_size,
                   instruction_packs>>

add_instruction(ix) ==
    /\ Alive
    /\ UNCHANGED xvars
    /\ AddInstruction(ix)

\* marinade-client-rs TransactionBuilder::finish_instruction_pack
FinishInstructionPack ==
    /\ prepared' = NoPrepared
    /\ variant = "client"
    /\ Len(instruction_packs) < MaxPacks
    /\ IF current_instruction_pack.some
       THEN /\ instruction_packs' = Append(instruction_packs, current_instruction_pack.pack)
            /\ current_instruction_pack' = SomePack(<<>>)
            /\ result' = Res("finish_instruction_pack", "Ok", 0)
       ELSE /\ result' = Res("finish_instruction_pack", "Panic", 0)
            /\ UNCHANGED <<instruction_packs, current_instruction_pack>>
    /\ UNCHANGED <<variant, fee_payer, signers, is_check_signers, max_transaction_size>>

finish_instruction_pack ==
    /\ Alive
    /\ UNCHANGED xvars
    /\ FinishInstructionPack

\* marinade-client-rs TransactionBuilder::abort_instruction_pack
abort_instruction_pack ==
    /\ Alive
    /\ UNCHANGED xvars
    /\ prepared' = NoPrepared
    /\ variant = "client"
    /\ IF current_instruction_pack.some
       THEN /\ current_instruction_pack' = NoPack
            /\ result' = Res("abort_instruction_pack", "Ok", 0)
       ELSE /\ result' = Res("abort_instruction_pack", "Panic", 0)
            /\ UNCHANGED current_instruction_pack
    /\ UNCHANGED <<variant, fee_payer, signers, is_check_signers, max_transaction_size,
                   instruction_packs>>

-----------------------------------------------------------------------------
(* transaction-utils pack operations *)

\* transaction-utils TransactionBuilder::begin
Begin ==
    /\ prepared' = NoPrepared
    /\ variant = "utils"
    /\ IF current_instruction_pack.some
       THEN /\ result' = Res("begin", "Panic", 0)
            /\ UNCHANGED current_instruction_pack
       ELSE /\ current_instruction_pack' = SomePack(<<>>)
            /\ result' = Res("begin", "Ok", 0)
    /\ UNCHANGED <<variant, fee_payer, signers, is_check_signers, max_transaction_size,
                   instruction_packs>>

begin ==
    /\ Alive
    /\ UNCHANGED xvars
    /\ Begin

\* transaction-utils TransactionBuilder::commit
Commit ==
    /\ prepared' = NoPrepared
    /\ variant = "utils"
    /\ Len(instruction_packs) < MaxPacks
    /\ IF current_instruction_pack.some
       THEN /\ instruction_packs' = Append(instruction_packs, current_instruction_pack.pack)
            /\ current_instruction_pack' = NoPack
            /\ result' = Res("commit", "Ok", 0)
       ELSE /\ result' = Res("commit", "Panic", 0)
            /\ UNCHANGED <<instruction_packs, current_instruction_pack>>
    /\ UNCHANGED <<variant, fee_payer, signers, is_check_signers, max_transaction_size>>

commit ==
    /\ Alive
    /\ UNCHANGED xvars
    /\ Commit

\* transaction-utils TransactionBuilder::rollback
rollback ==
    /\ Alive
    /\ UNCHANGED xvars
    /\ prepared' = NoPrepared
    /\ variant = "utils"
    /\ IF current_instruction_pack.some
       THEN /\ current_instruction_pack' = NoPack
            /\ result' = Res("rollback", "Ok", 0)
       ELSE /\ result' = Res("rollback", "Panic", 0)
            /\ UNCHANGED current_instruction_pack
    /\ UNCHANGED <<variant, fee_payer, signers, is_check_signers, max_transaction_size,
                   instruction_packs>>

\* a rollback that keeps the rejected instruction in the pack
UtilsRollbackKeeps(add_transaction, pushed) == SomePack(pushed)

\* what transaction-utils add_instruction leaves of the current pack when the
\* candidate is too big: rollback() of a pack it began itself, pop() otherwise
UtilsRollback(add_transaction, pushed) ==
    IF add_transaction THEN NoPack ELSE SomePack(Pop(pushed))

\* transaction-utils TransactionBuilder::add_instruction
UtilsAddInstruction(ix) ==
    /\ prepared' = NoPrepared
    /\ variant = "utils"
    /\ Held < MaxInstructions
    /\ current_instruction_pack.some \/ Len(instruction_packs) < MaxPacks
    /\ IF ~utils_check_signers(ix)
       THEN /\ result' = Res("add_instruction", "UnknownSigner", FirstUnknownSigner(ix))
            /\ UNCHANGED <<current_instruction_pack, instruction_packs>>
       ELSE LET add_transaction == ~current_instruction_pack.some
                pushed == Append(current_instruction_pack.pack,
                                 Elem(ix, DescriptionOf(ix)))
            IN IF TooBig(pushed)
               THEN /\ current_instruction_pack' = UtilsRollback(add_transaction, pushed)
                    /\ result' = Res("add_instruction", "TooBigTransaction", 0)
                    /\ UNCHANGED instruction_packs
               ELSE /\ result' = Res("add_instruction", "Ok", 0)
                    /\ IF add_transaction
                       THEN /\ instruction_packs' = Append(instruction_packs, pushed)
                            /\ current_instruction_pack' = NoPack
                       ELSE /\ current_instruction_pack' = SomePack(pushed)
                            /\ UNCHANGED instruction_packs
    /\ UNCHANGED <<variant, fee_payer, signers, is_check_signers, max_transaction_size>>

utils_add_instruction(ix) ==
    /\ Alive
    /\ UNCHANGED xvars
    /\ UtilsAddInstruction(ix)

-----------------------------------------------------------------------------
(* Draining *)

Descriptions(elems) == [i \in DOMAIN elems |-> elems[i].description]

\* PreparedTransaction::new: Err(key) when a slot has no capability
PreparedNew(tx, descriptions) ==
    LET r == signers_for_transaction(tx)
    IN [ok |-> r.ok, key |-> r.key,
        value |-> [some |-> TRUE, transaction |-> tx, signers |-> r.signers,
                   instruction_descriptions |-> descriptions]]

\* PreparedTransaction::new_no_signers
new_no_signers(tx) ==
    [some |-> TRUE, transaction |-> tx, signers |-> <<>>,
     instruction_descriptions |-> <<>>]

\* a merge that puts each following pack in front of the accumulated instructions
RECURSIVE CombineLoopPrepend(_, _, _)
CombineLoopPrepend(instructions, transaction, packs) ==
    IF packs = <<>>
    THEN [instructions |-> instructions, transaction |-> transaction, packs |-> packs]
    ELSE LET extended == Head(packs) \o instructions
             transaction_candidate == NewWithPayer(extended, fee_payer)
         IN IF SerializedSize(transaction_candidate) <= max_transaction_size
            THEN CombineLoopPrepend(extended, transaction_candidate, Tail(packs))
            ELSE [instructions |-> extended, transaction |-> transaction,
                  packs |-> packs]

\* the merge loop of build_next_combined with a nonzero maximum: the accumulated
\* instruction list is extended before the candidate is measured, the transaction
\* is replaced only when the candidate fits
RECURSIVE CombineLoop(_, _, _)
CombineLoop(instructions, transaction, packs) ==
    IF packs = <<>>
    THEN [instructions |-> instructions, transaction |-> transaction, packs |-> packs]
    ELSE LET extended == instructions \o Head(packs)
             transaction_candidate == NewWithPayer(extended, fee_payer)
         IN IF SerializedSize(transaction_candidate) <= max_transaction_size
            THEN CombineLoop(extended, transaction_candidate, Tail(packs))
            ELSE [instructions |-> extended, transaction |-> transaction,
                  packs |-> packs]

\* a build that runs the merge loop whatever the maximum is
CombineAlwaysBounded(packs) ==
    CombineLoop(Head(packs), NewWithPayer(Head(packs), fee_payer), Tail(packs))

\* a build that returns the first pack and puts it back at the end of the queue
CombineRequeues(packs) ==
    [instructions |-> Head(packs),
     transaction |-> NewWithPayer(Head(packs), fee_payer),
     packs |-> Append(Tail(packs), Head(packs))]

\* the transaction build_next_combined makes of a non-empty queue, and what is left
Combine(packs) ==
    IF max_transaction_size = 0
    THEN [instructions |-> Flatten(packs),
          transaction |-> NewWithPayer(Flatten(packs), fee_payer),
          packs |-> <<>>]
    ELSE CombineLoop(Head(packs), NewWithPayer(Head(packs), fee_payer), Tail(packs))

is_current_pack_empty ==
    IF current_instruction_pack.some THEN current_instruction_pack.pack = <<>> ELSE TRUE

\* the queue and the open pack after the leading
\* "if !self.is_current_pack_empty() { self.finish_instruction_pack() }"
\* a build call that leaves the open pack alone
AfterAutoFinishNever ==
    [packs |-> instruction_packs, current |-> current_instruction_pack]

AfterAutoFinish ==
    IF ~is_current_pack_empty
    THEN [packs |-> Append(instruction_packs, current_instruction_pack.pack),
          current |-> SomePack(<<>>)]
    ELSE [packs |-> instruction_packs, current |-> current_instruction_pack]

\* the committed queue a build call works on: build calls of marinade-client-rs
\* first commit a non-empty open pack
QueueAtBuild ==
    IF variant = "client" THEN AfterAutoFinish.packs ELSE instruction_packs

\* CombinedSequence: build_next_combined called until it returns None; the
\* instruction lists of the transactions it yields
RECURSIVE DrainCombined(_)
DrainCombined(packs) ==
    IF packs = <<>> THEN <<>>
    ELSE LET c == Combine(packs)
         IN <<c.transaction.instructions>> \o DrainCombined(c.packs)

\* marinade-client-rs: PreparedTransaction::new(..).expect(..) or new_no_signers
ClientPrepare(op, tx, consumed) ==
    IF is_check_signers
    THEN LET r == PreparedNew(tx, <<>>)
         IN IF r.ok
            THEN /\ prepared' = r.value
                 /\ result' = ResN(op, "Some", 0, consumed)
            ELSE /\ prepared' = NoPrepared
                 /\ result' = Res(op, "Panic", r.key)
    ELSE /\ prepared' = new_no_signers(tx)
         /\ result' = ResN(op, "Some", 0, consumed)

\* marinade-client-rs TransactionBuilder::build_next
build_next ==
    /\ Alive
    /\ UNCHANGED xvars
    /\ variant = "client"
    /\ LET a == AfterAutoFinish
       IN /\ current_instruction_pack' = a.current
          /\ IF a.packs = <<>>
             THEN /\ instruction_packs' = a.packs
                  /\ prepared' = NoPrepared
                  /\ result' = Res("build_next", "None", 0)
             ELSE /\ instruction_packs' = Tail(a.packs)
                  /\ ClientPrepare("build_next", NewWithPayer(Head(a.packs), fee_payer), 1)
    /\ UNCHANGED <<variant, fee_payer, signers, is_check_signers, max_transaction_size>>

\* marinade-client-rs TransactionBuilder::build_next_combined, on the builder
BuildNextCombined ==
    /\ variant = "client"
    /\ LET a == AfterAutoFinish
       IN /\ current_instruction_pack' = a.current
          /\ IF a.packs = <<>>
             THEN /\ instruction_packs' = a.packs
                  /\ prepared' = NoPrepared
                  /\ result' = Res("build_next_combined", "None", 0)
             ELSE LET c == Combine(a.packs)
                  IN /\ instruction_packs' = c.packs
                     /\ ClientPrepare("build_next_combined", c.transaction,
                                      Len(a.packs) - Len(c.packs))
    /\ UNCHANGED <<variant, fee_payer, signers, is_check_signers, max_transaction_size>>

\* build_next_combined called by the owner of the builder
build_next_combined ==
    /\ Alive
    /\ UNCHANGED xvars
    /\ BuildNextCombined

\* transaction-utils: PreparedTransaction::new(..).expect(..)
UtilsPrepare(op, tx, descriptions, consumed) ==
    LET r == PreparedNew(tx, descriptions)
    IN IF r.ok
       THEN /\ prepared' = r.value
            /\ result' = ResN(op, "Some", 0, consumed)
       ELSE /\ prepared' = NoPrepared
            /\ result' = Res(op, "Panic", r.key)

\* transaction-utils TransactionBuilder::build_next
utils_build_next ==
    /\ Alive
    /\ UNCHANGED xvars
    /\ variant = "utils"
    /\ IF ~is_current_pack_empty
       THEN \* assert!(.., "Not committed transaction")
            /\ result' = Res("build_next", "Panic", 0)
            /\ prepared' = NoPrepared
            /\ UNCHANGED instruction_packs
       ELSE IF instruction_packs = <<>>
       THEN /\ prepared' = NoPrepared
            /\ result' = Res("build_next", "None", 0)
            /\ UNCHANGED instruction_packs
       ELSE /\ instruction_packs' = Tail(instruction_packs)
            /\ UtilsPrepare("build_next",
                            NewWithPayer(Head(instruction_packs), fee_payer),
                            Descriptions(Head(instruction_packs)), 1)
    /\ UNCHANGED <<variant, fee_payer, signers, is_check_signers, max_transaction_size,
                   current_instruction_pack>>

\* transaction-utils TransactionBuilder::build_next_combined
utils_build_next_combined ==
    /\ Alive
    /\ UNCHANGED xvars
    /\ variant = "utils"
    /\ IF ~is_current_pack_empty
       THEN /\ result' = Res("build_next_combined", "Panic", 0)
            /\ prepared' = NoPrepared
            /\ UNCHANGED instruction_packs
       ELSE IF instruction_packs = <<>>
       THEN /\ prepared' = NoPrepared
            /\ result' = Res("build_next_combined", "None", 0)
            /\ UNCHANGED instruction_packs
       ELSE LET c == Combine(instruction_packs)
            IN /\ instruction_packs' = c.packs
               /\ UtilsPrepare("build_next_combined", c.transaction,
                               Descriptions(c.instructions),
                               Len(instruction_packs) - Len(c.packs))
    /\ UNCHANGED <<variant, fee_payer, signers, is_check_signers, max_transaction_size,
                   current_instruction_pack>>

-----------------------------------------------------------------------------
(* The builder as a state machine: any caller, any order of calls *)

Next ==
    \/ \E k \in CallerKeypairs : add_signer(k)
    \/ \E k \in CallerKeypairs : add_signer_checked(k)
    \/ with_no_signers_check
    \/ \E ix \in Instructions : add_instruction(ix)
    \/ finish_instruction_pack
    \/ abort_instruction_pack
    \/ build_next
    \/ build_next_combined
    \/ begin
    \/ commit
    \/ rollback
    \/ \E ix \in Instructions : utils_add_instruction(ix)
    \/ utils_build_next
    \/ utils_build_next_combined

Spec == Init /\ [][Next]_vars

-----------------------------------------------------------------------------
(* PreparedTransaction::sign *)

\* the blockhashes the node hands out
Blockhashes == {1, 2}

\* try_partial_sign_unchecked keeping the old signatures under a new blockhash
SetBlockhashKeepSignatures(tx, hash) == [tx EXCEPT !.recent_blockhash = hash]

\* Transaction::try_partial_sign_unchecked, first half: a new blockhash replaces
\* the old one and resets every signature
SetBlockhash(tx, hash) ==
    IF hash # tx.recent_blockhash
    THEN [tx EXCEPT !.recent_blockhash = hash,
                    !.signatures = [i \in DOMAIN tx.signatures |-> DefaultSignature]]
    ELSE tx

is_signed(tx) == \A i \in DOMAIN tx.signatures : tx.signatures[i] # DefaultSignature

\* Transaction::try_sign with the signers of the PreparedTransaction; refusing is
\* the set of capabilities that fail to sign this time
TrySign(p, hash, refusing) ==
    LET tx == p.transaction
        slot_keys == SlotKeys(tx)
        HasSlot(k) == \E i \in DOMAIN slot_keys : slot_keys[i] = k
        mismatch == \E j \in DOMAIN p.signers : ~HasSlot(p.signers[j])
        refused == \E j \in DOMAIN p.signers : p.signers[j] \in refusing
        rehashed == SetBlockhash(tx, hash)
        signed == [rehashed EXCEPT !.signatures =
                     [i \in DOMAIN rehashed.signatures |->
                        IF \E j \in DOMAIN p.signers : p.signers[j] = slot_keys[i]
                        THEN [signer |-> slot_keys[i],
                              blockhash |-> rehashed.recent_blockhash]
                        ELSE rehashed.signatures[i]]]
    IN IF mismatch
       THEN [ok |-> FALSE, err |-> "KeypairPubkeyMismatch", transaction |-> tx]
       ELSE IF refused
       THEN [ok |-> FALSE, err |-> "SignerRefused", transaction |-> rehashed]
       ELSE IF ~is_signed(signed)
       THEN [ok |-> FALSE, err |-> "NotEnoughSigners", transaction |-> signed]
       ELSE [ok |-> TRUE, err |-> "", transaction |-> signed]

\* the capabilities that may refuse: a Keypair always signs, a dyn Signer of
\* transaction-utils (a hardware wallet) may not
Refusals(p) ==
    IF variant = "utils" THEN {{}} \cup {{k} : k \in Range(p.signers)} ELSE {{}}

\* PreparedTransaction::sign called by the owner of a PreparedTransaction
sign(hash, refusing) ==
    /\ pc = "idle"
    /\ prepared.some
    /\ Len(sign_log) < MaxSigns
    /\ LET r == TrySign(prepared, hash, refusing)
       IN /\ prepared' = [prepared EXCEPT !.transaction = r.transaction]
          /\ sign_log' = Append(sign_log, [token |-> hash, ok |-> r.ok, err |-> r.err])
    /\ UNCHANGED <<variant, fee_payer, signers, is_check_signers, max_transaction_size,
                   instruction_packs, current_instruction_pack, result>>
    /\ UNCHANGED <<pc, blockhash_failure_retries, retry_count, last_error,
                   latest_hash, ret, observed, fetches, signs, submits, run, anchor,
                   caller, lookup>>

\* the packs the PreparedTransactions under signature are drained from
SignedPacks ==
    {<<Elem(ixA, "a")>>, <<Elem(ixB, "b")>>, <<Elem(ixA, "a"), Elem(ixB, "b")>>}

\* a builder that has just returned its only pack from build_next: strict with
\* K1 and K2 registered, or switched to with_no_signers_check
InitDrained ==
    /\ fee_payer = FeePayer
    /\ max_transaction_size = 0
    /\ instruction_packs = <<>>
    /\ result = ResN("build_next", "Some", 0, 1)
    /\ \E pack \in SignedPacks :
          \/ /\ variant = "client"
             /\ is_check_signers = TRUE
             /\ signers = {FeePayer, K1, K2}
             /\ current_instruction_pack = SomePack(<<>>)
             /\ prepared = [some |-> TRUE,
                            transaction |-> NewWithPayer(pack, FeePayer),
                            signers |-> SlotKeys(NewWithPayer(pack, FeePayer)),
                            instruction_descriptions |-> <<>>]
          \/ /\ variant = "client"
             /\ is_check_signers = FALSE
             /\ signers = {}
             /\ current_instruction_pack = SomePack(<<>>)
             /\ prepared = new_no_signers(NewWithPayer(pack, FeePayer))
          \/ /\ variant = "utils"
             /\ is_check_signers = TRUE
             /\ signers = {FeePayer, K1, K2}
             /\ current_instruction_pack = NoPack
             /\ prepared = [some |-> TRUE,
                            transaction |-> NewWithPayer(pack, FeePayer),
                            signers |-> SlotKeys(NewWithPayer(pack, FeePayer)),
                            instruction_descriptions |-> Descriptions(pack)]

InitSign ==
    /\ ExecIdle
    /\ InitDrained

NextSign ==
    \E hash \in Blockhashes : \E refusing \in Refusals(prepared) : sign(hash, refusing)

SpecSign == InitSign /\ [][NextSign]_vars

-----------------------------------------------------------------------------
(* execute_prepared_transaction_retry_blockhash_internal *)

Err(kind, tx_err, message) == [kind |-> kind, tx_err |-> tx_err, message |-> message]

\* what get_latest_blockhash fails with: a transport failure or an RPC error reply
FetchErrors ==
    {Err("Io", "None", "connection refused"),
     Err("RpcResponseError", "None", "node is unhealthy")}

\* what send_and_confirm_transaction_with_spinner_and_config fails with
SendErrors ==
    {Err("PreflightFailure", "BlockhashNotFound", ""),
     Err("PreflightFailure", "InstructionError", ""),
     Err("PreflightFailure", "None", ""),
     Err("ForUser", "None", "unable to confirm transaction. This can happen"),
     Err("ForUser", "None", "Unable To Confirm Transaction"),
     Err("ForUser", "None", "transaction resend failed"),
     Err("TransactionError", "BlockhashNotFound", ""),
     Err("TransactionError", "InsufficientFundsForFee", ""),
     Err("RpcResponseError", "None", "node is unhealthy"),
     Err("Io", "None", "connection refused")}

\* str::to_lowercase on the messages above
ToLowercase(message) ==
    IF message = "Unable To Confirm Transaction"
    THEN "unable to confirm transaction"
    ELSE message

\* str::contains("unable to confirm transaction") on lowercase messages
ContainsUnableToConfirm(message) ==
    message \in {"unable to confirm transaction",
                 "unable to confirm transaction. This can happen"}

\* a classification that takes every user-facing message for an expired blockhash
to_check_err_any_for_user(e) ==
    IF e.kind = "PreflightFailure" THEN e.tx_err
    ELSE IF e.kind = "ForUser" THEN "BlockhashNotFound"
    ELSE IF e.kind = "TransactionError" THEN e.tx_err
    ELSE "None"

\* to_check_err: the TransactionError the loop looks at, "None" when there is none
to_check_err(e) ==
    IF e.kind = "PreflightFailure" THEN e.tx_err
    ELSE IF e.kind = "ForUser"
         THEN IF ContainsUnableToConfirm(ToLowercase(e.message))
              THEN "BlockhashNotFound" ELSE "None"
    ELSE IF e.kind = "TransactionError" THEN e.tx_err
    ELSE "None"

\* a loop that starts a new attempt after every error
RetryableAlways(e) == TRUE

Retryable(e) == to_check_err(e) = "BlockhashNotFound"

\* while retry_count <= blockhash_failure_retries, None being 0
LoopContinues(count) ==
    count <= (IF blockhash_failure_retries < 0 THEN 0 ELSE blockhash_failure_retries)

\* a retry that signs again over the blockhash it already holds
NextAttemptSameBlockhash == "sign"

\* the loop body starts over in execute_prepared_transaction_internal, which
\* fetches a blockhash first
NextAttempt == "fetch"

Returned(status, e, sig) == [status |-> status, error |-> e, signature |-> sig]

\* the Err(err) arm of the loop: remember the error, then retry or leave the loop.
\* retry_count += 1 on a u16 of 65535 panics in a build with overflow checks and
\* wraps to 0 in a build without.
HandleError(e) ==
    /\ last_error' = e
    /\ observed' = e
    /\ IF ~Retryable(e)
       THEN /\ pc' = "done"
            /\ ret' = Returned("Err", last_error', DefaultSignature)
            /\ UNCHANGED retry_count
       ELSE IF retry_count = U16_MAX
       THEN \E overflow_checks \in BOOLEAN :
               IF overflow_checks
               THEN /\ pc' = "done"
                    /\ ret' = Returned("Panic", last_error', DefaultSignature)
                    /\ UNCHANGED retry_count
               ELSE /\ retry_count' = (retry_count + 1) % (U16_MAX + 1)
                    /\ pc' = NextAttempt
                    /\ UNCHANGED ret
       ELSE /\ retry_count' = retry_count + 1
            /\ IF LoopContinues(retry_count + 1)
               THEN /\ pc' = NextAttempt
                    /\ UNCHANGED ret
               ELSE /\ pc' = "done"
                    /\ ret' = Returned("Err", last_error', DefaultSignature)

\* execute_prepared_transaction_internal: rpc_client.get_latest_blockhash()?
get_latest_blockhash ==
    /\ pc = "fetch"
    /\ fetches <= U16_MAX + 1
    /\ fetches' = fetches + 1
    /\ \/ \E hash \in Blockhashes :
            /\ latest_hash' = hash
            /\ pc' = "sign"
            /\ UNCHANGED <<retry_count, last_error, observed, ret>>
       \/ \E e \in FetchErrors :
            /\ HandleError(e)
            /\ UNCHANGED latest_hash
    /\ UNCHANGED <<bvars, sign_log, blockhash_failure_retries, signs, submits,
                   run, anchor,
                   caller, lookup>>

\* execute_prepared_transaction_internal: prepared_transaction.sign(latest_hash)
executor_sign ==
    /\ pc = "sign"
    /\ signs' = signs + 1
    /\ LET r == TrySign(prepared, latest_hash, {})
       IN /\ prepared' = [prepared EXCEPT !.transaction = r.transaction]
          /\ IF r.ok
             THEN /\ pc' = "submit"
                  /\ UNCHANGED <<retry_count, last_error, observed, ret>>
             ELSE HandleError(Err("SigningError", "None", r.err))
    /\ UNCHANGED <<variant, fee_payer, signers, is_check_signers, max_transaction_size,
                   instruction_packs, current_instruction_pack, result>>
    /\ UNCHANGED <<sign_log, blockhash_failure_retries, latest_hash, fetches, submits,
                   run, anchor,
                   caller, lookup>>

\* execute_prepared_transaction_internal: send_and_confirm_transaction_with_spinner_and_config
send_and_confirm_transaction ==
    /\ pc = "submit"
    /\ submits' = submits + 1
    /\ \/ /\ pc' = "done"
          /\ ret' = Returned("Ok", UnknownRetryFailure, prepared.transaction.signatures[1])
          /\ UNCHANGED <<retry_count, last_error, observed>>
       \/ \E e \in SendErrors : HandleError(e)
    /\ UNCHANGED <<bvars, sign_log, blockhash_failure_retries, latest_hash, fetches, signs,
                   run, anchor,
                   caller, lookup>>

\* the budgets of the runs explored in full: None and Some(0..MaxRetries)
RetryChoices == {-1} \cup 0..MaxRetries

\* the loop entered with a PreparedTransaction of marinade-client-rs
InitLoop ==
    /\ InitDrained
    /\ variant = "client"
    /\ sign_log = <<>>
    /\ pc = "fetch"
    /\ retry_count = 0
    /\ last_error = UnknownRetryFailure
    /\ latest_hash = DefaultHash
    /\ ret = NoReturn
    /\ observed = UnknownRetryFailure
    /\ fetches = 0
    /\ signs = 0
    /\ submits = 0
    /\ lookup = NoLookup
    /\ run = NoRun
    /\ anchor = NoAnchor
    /\ caller = NoCaller

InitExec ==
    /\ InitLoop
    /\ blockhash_failure_retries \in RetryChoices

NextExec ==
    \/ get_latest_blockhash
    \/ executor_sign
    \/ send_and_confirm_transaction

SpecExec == InitExec /\ [][NextExec]_vars

\* the same loop with the largest budget a u16 holds
InitExecU16 ==
    /\ InitLoop
    /\ is_check_signers
    /\ prepared.transaction.instructions = <<Elem(ixB, "b")>>
    /\ blockhash_failure_retries = U16_MAX

\* a node on which every submitted transaction has expired
BlockhashNotFound == Err("TransactionError", "BlockhashNotFound", "")

send_expired_transaction ==
    /\ send_and_confirm_transaction
    /\ ret'.status # "Ok"
    /\ observed' = BlockhashNotFound

NextExecU16 ==
    \/ get_latest_blockhash
    \/ executor_sign
    \/ send_expired_transaction

SpecExecU16 == InitExecU16 /\ [][NextExecU16]_vars

-----------------------------------------------------------------------------
(* execute_transaction_builder *)

\* TransactionBuilder::instructions: the committed packs in order, then the
\* current pack
instructions == Flatten(instruction_packs) \o current_instruction_pack.pack

\* TransactionBuilder::fits_single_transaction (fit_into_single_transaction of
\* transaction-utils): the size of one transaction of all instructions held,
\* compared with max_transaction_size as it is
fits_single_transaction ==
    SerializedSize(NewWithPayer(instructions, fee_payer)) <= max_transaction_size

\* print_base64: the TransactionInstruction block printed for one instruction
EncodedBlock(ix) ==
    [program_id |-> ix.program_id,
     accounts |-> [i \in DOMAIN ix.accounts |->
                     [pubkey |-> ix.accounts[i].pubkey,
                      is_signer |-> ix.accounts[i].is_signer,
                      is_writable |-> ix.accounts[i].is_writable]],
     data_len |-> ix.data_len]

\* a print that emits the blocks last to first
print_base64_reversed(elems) ==
    [i \in DOMAIN elems |-> EncodedBlock(elems[Len(elems) + 1 - i].ix)]

print_base64(elems) == [i \in DOMAIN elems |-> EncodedBlock(elems[i].ix)]

SimResult(ok, kind, err, logs) == [ok |-> ok, kind |-> kind, err |-> err, logs |-> logs]

\* what simulate_transaction_with_config answers: a result without error, a
\* result with an on-chain error, a preflight failure with logs, a transport error
NodeSimulationResults ==
    {SimResult(TRUE, "Response", "None", <<"log 2", "log 1">>),
     SimResult(TRUE, "Response", "None", <<>>),
     SimResult(TRUE, "Response", "InstructionError", <<"log 2", "log 1">>),
     SimResult(FALSE, "PreflightFailure", "InstructionError", <<"log 2", "log 1">>),
     SimResult(FALSE, "Io", "None", <<>>)}

\* PreparedTransaction::partial_sign: the blockhash is set and the capabilities
\* held sign their slots; slots without capability keep the default signature
PartialSign(p, hash) ==
    LET rehashed == SetBlockhash(p.transaction, hash)
        slot_keys == SlotKeys(rehashed)
    IN [rehashed EXCEPT !.signatures =
          [i \in DOMAIN rehashed.signatures |->
             IF \E j \in DOMAIN p.signers : p.signers[j] = slot_keys[i]
             THEN [signer |-> slot_keys[i], blockhash |-> hash]
             ELSE rehashed.signatures[i]]]

\* lines 224-228: print_base64(&transaction_builder.instructions()) when print is set
print_instructions ==
    /\ run.at = "start"
    /\ run' = [run EXCEPT !.at = "iterate",
                          !.printed = IF run.print THEN print_base64(instructions)
                                      ELSE <<>>]
    /\ UNCHANGED <<bvars, sign_log, pc, blockhash_failure_retries, retry_count,
                   last_error, latest_hash, ret, observed, fetches, signs, submits,
                   anchor,
                   caller, lookup>>

\* an execute that goes on to the next envelope after a failed one
AfterFailureKeepGoing(e) ==
    [run EXCEPT !.at = "iterate"]

\* log_execution(&execution_result)? on an error: the call returns it
AfterFailure(e) ==
    [run EXCEPT !.at = "returned", !.outcome = [status |-> "Err", error |-> e]]

\* a simulate loop that skips no envelope
SkipSimulationNever(number) == FALSE

\* "if number_of_transactions > 1 { continue; }": only the first bunch is simulated
SkipSimulation(number) == number > 1

\* CombinedSequence::next for the loop of execute_transaction_builder: the next
\* envelope is built; in simulate mode only the first one goes on to simulation,
\* in execute mode the retry loop is entered
sequence_combined_next ==
    /\ run.at = "iterate"
    /\ BuildNextCombined
    /\ IF result'.status = "Panic"
       THEN /\ run' = [run EXCEPT !.at = "returned",
                                  !.outcome = [status |-> "Panic",
                                               error |-> UnknownRetryFailure]]
            /\ UNCHANGED <<pc, retry_count, last_error, ret, observed>>
       ELSE IF result'.status = "None"
       THEN /\ run' = [run EXCEPT !.at = "returned",
                                  !.warned = run.simulate /\ run.number_of_transactions > 1,
                                  !.outcome = [status |-> "Ok",
                                               error |-> UnknownRetryFailure]]
            /\ UNCHANGED <<pc, retry_count, last_error, ret, observed>>
       ELSE IF run.simulate
       THEN /\ run' = [run EXCEPT
                         !.yielded = Append(@, prepared'.transaction.instructions),
                         !.number_of_transactions = @ + 1,
                         !.at = IF SkipSimulation(run.number_of_transactions + 1)
                                THEN "iterate" ELSE "simulate"]
            /\ UNCHANGED <<pc, retry_count, last_error, ret, observed>>
       ELSE /\ run' = [run EXCEPT
                         !.yielded = Append(@, prepared'.transaction.instructions),
                         !.at = "execute"]
            /\ pc' = "fetch"
            /\ retry_count' = 0
            /\ last_error' = UnknownRetryFailure
            /\ ret' = NoReturn
            /\ observed' = UnknownRetryFailure
    /\ UNCHANGED <<sign_log, blockhash_failure_retries, latest_hash, fetches, signs,
                   submits, anchor,
                   caller, lookup>>

\* simulate_prepared_transaction on the first envelope: fetch a blockhash, sign
\* (or partially sign when signatures are not verified), ask the node
simulate_prepared_transaction ==
    /\ run.at = "simulate"
    /\ fetches' = fetches + 1
    /\ LET sig_verify == ~run.print /\ is_check_signers
       IN \/ \E e \in FetchErrors :
               /\ run' = [run EXCEPT !.at = "log_simulation",
                            !.simulated = Append(@, Len(run.yielded)),
                            !.simulation_result = SimResult(FALSE, e.kind, "None", <<>>)]
               /\ UNCHANGED <<prepared, latest_hash, signs>>
          \/ \E hash \in Blockhashes :
               /\ latest_hash' = hash
               /\ signs' = signs + 1
               /\ LET r == IF sig_verify
                           THEN TrySign(prepared, hash, {})
                           ELSE [ok |-> TRUE, err |-> "",
                                 transaction |-> PartialSign(prepared, hash)]
                  IN /\ prepared' = [prepared EXCEPT !.transaction = r.transaction]
                     /\ IF ~r.ok
                        THEN run' = [run EXCEPT !.at = "log_simulation",
                                       !.simulated = Append(@, Len(run.yielded)),
                                       !.simulation_result =
                                          SimResult(FALSE, "ForUser", "None", <<>>)]
                        ELSE \E answer \in NodeSimulationResults :
                               run' = [run EXCEPT
                                         !.at = "log_simulation",
                                         !.simulated = Append(@, Len(run.yielded)),
                                         !.simulation_result = answer]
    /\ UNCHANGED <<variant, fee_payer, signers, is_check_signers, max_transaction_size,
                   instruction_packs, current_instruction_pack, result>>
    /\ UNCHANGED <<sign_log, pc, blockhash_failure_retries, retry_count, last_error,
                   ret, observed, submits, anchor,
                   caller, lookup>>

\* a log_simulation that lets a result with an on-chain error pass
SimulationFailedTransportOnly(r) == ~r.ok

\* log_simulation bails on an Err and on an Ok whose value.err is set
SimulationFailed(r) == ~r.ok \/ r.err # "None"

\* the "Log: .." lines log_simulation writes: the logs of an Ok result, the
\* logs of a preflight failure
LogLines(r) ==
    IF r.ok \/ r.kind = "PreflightFailure" THEN r.logs ELSE <<>>

\* log_simulation(&simulation_result)?
log_simulation ==
    /\ run.at = "log_simulation"
    /\ LET r == run.simulation_result
       IN run' = [run EXCEPT
                    !.emitted = @ \o LogLines(r),
                    !.at = IF SimulationFailed(r) THEN "returned" ELSE "iterate",
                    !.outcome = IF SimulationFailed(r)
                                THEN [status |-> "Err",
                                      error |-> Err(r.kind, r.err, "Transaction error")]
                                ELSE @]
    /\ UNCHANGED <<bvars, sign_log, pc, blockhash_failure_retries, retry_count,
                   last_error, latest_hash, ret, observed, fetches, signs, submits,
                   anchor,
                   caller, lookup>>

\* log_execution(&execution_result)? once the retry loop has returned
log_execution ==
    /\ run.at = "execute"
    /\ pc = "done"
    /\ pc' = "idle"
    /\ run' = IF ret.status = "Ok"
              THEN [run EXCEPT !.at = "iterate", !.confirmed = @ + 1]
              ELSE AfterFailure(ret.error)
    /\ UNCHANGED <<bvars, sign_log, blockhash_failure_retries, retry_count,
                   last_error, latest_hash, ret, observed, fetches, signs, submits,
                   anchor,
                   caller, lookup>>

A == Elem(ixA, "a")
B == Elem(ixB, "b")

\* the builders handed to execute_transaction_builder: queue and current pack
PipelineBuilders ==
    {[packs |-> <<>>, current |-> <<>>],
     [packs |-> <<<<B>>>>, current |-> <<>>],
     [packs |-> <<<<A>>, <<B>>>>, current |-> <<>>],
     [packs |-> <<<<A, A>>>>, current |-> <<B>>],
     [packs |-> <<<<A, A>>, <<A, A>>>>, current |-> <<B>>]}

PipelineRetryChoices == {-1, 1}

InitPipeline ==
    /\ variant = "client"
    /\ fee_payer = FeePayer
    /\ \/ is_check_signers = TRUE /\ signers = {FeePayer, K1, K2}
       \/ is_check_signers = FALSE /\ signers = {}
    /\ max_transaction_size \in {0, PACKET_DATA_SIZE}
    /\ \E b \in PipelineBuilders :
          /\ instruction_packs = b.packs
          /\ current_instruction_pack = SomePack(b.current)
          /\ result = IF b.current # <<>> THEN Res("add_instruction", "Ok", 0)
                      ELSE IF b.packs # <<>> THEN Res("finish_instruction_pack", "Ok", 0)
                      ELSE Res("new", "Ok", 0)
    /\ prepared = NoPrepared
    /\ sign_log = <<>>
    /\ pc = "idle"
    /\ blockhash_failure_retries \in PipelineRetryChoices
    /\ retry_count = 0
    /\ last_error = UnknownRetryFailure
    /\ latest_hash = DefaultHash
    /\ ret = NoReturn
    /\ observed = UnknownRetryFailure
    /\ fetches = 0
    /\ signs = 0
    /\ submits = 0
    /\ lookup = NoLookup
    /\ anchor = NoAnchor
    /\ caller = NoCaller
    /\ \E simulate \in BOOLEAN : \E print \in BOOLEAN :
          run = [NoRun EXCEPT !.at = "start", !.simulate = simulate, !.print = print,
                              !.started = instructions,
                              !.expected = DrainCombined(QueueAtBuild)]

NextPipeline ==
    \/ print_instructions
    \/ sequence_combined_next
    \/ simulate_prepared_transaction
    \/ log_simulation
    \/ get_latest_blockhash
    \/ executor_sign
    \/ send_and_confirm_transaction
    \/ log_execution

SpecPipeline == InitPipeline /\ [][NextPipeline]_vars

-----------------------------------------------------------------------------
(* The anchor-builder pipelines *)

\* the bound on the number of RequestBuilders handed to execute_with_config
AnchorMaxBuilders == 3

\* the RequestBuilders: their instructions, and whether instructions() and
\* transaction() succeed on them
AnchorBuilders ==
    {[instructions |-> <<ixA>>, valid |-> TRUE],
     [instructions |-> <<ixB, ixA>>, valid |-> TRUE],
     [instructions |-> <<ixB>>, valid |-> FALSE]}

\* print_base64(&builder.instructions()?) of the anchor executors
anchor_print_base64(ixs) == [i \in DOMAIN ixs |-> EncodedBlock(ixs[i])]

\* TransactionSimulator::simulate: transaction() fails before any call to the
\* node, otherwise the node answers
AnchorSimulationResults(b) ==
    IF b.valid THEN NodeSimulationResults
    ELSE {SimResult(FALSE, "RpcRequestError", "None", <<>>)}

\* send_with_spinner_and_config / RequestBuilder::execute
AnchorSendResults(b) ==
    IF b.valid
    THEN {[ok |-> TRUE, error |-> UnknownRetryFailure]} \cup
         {[ok |-> FALSE, error |-> e] : e \in SendErrors}
    ELSE {[ok |-> FALSE, error |-> Err("ForUser", "None", "Transaction error")]}

AnchorErr(a, e) ==
    [a EXCEPT !.at = "returned", !.outcome = [status |-> "Err", error |-> e]]

AnchorOk(a) ==
    [a EXCEPT !.at = "returned",
              !.outcome = [status |-> "Ok", error |-> UnknownRetryFailure]]

\* print_base64(&builder.instructions()?)? on builder b
AnchorPrint(a, b) ==
    IF b.valid
    THEN [a EXCEPT !.printed = @ \o anchor_print_base64(b.instructions)]
    ELSE AnchorErr(a, Err("ForUser", "None", "instructions"))

\* log_simulation(&builder.simulate(rpc_client))? with the answer r, on the
\* n-th builder given
AnchorSimulate(a, b, n, r) ==
    LET called == [a EXCEPT !.simulated = IF b.valid THEN Append(@, n) ELSE @,
                            !.emitted = @ \o LogLines(r)]
    IN IF SimulationFailed(r)
       THEN AnchorErr(called, Err(r.kind, r.err, "Transaction error"))
       ELSE called

\* log_execution(&builder.send_with_spinner_and_config(..))? with the answer r
AnchorSend(a, b, n, r) ==
    LET called == [a EXCEPT !.sent = IF b.valid THEN Append(@, n) ELSE @]
    IN IF r.ok THEN called ELSE AnchorErr(called, r.error)

AnchorUnchanged ==
    UNCHANGED <<bvars, sign_log, pc, blockhash_failure_retries, retry_count,
                last_error, latest_hash, ret, observed, fetches, signs, submits, run,
                caller, lookup>>

\* execute_with_config, one turn of the loop over the builders: in simulate
\* mode print_only prints and continues, otherwise the builder is simulated and
\* counted; outside simulate mode the builder is printed or sent
execute_with_config_next ==
    /\ anchor.at = "loop"
    /\ anchor.builders # <<>>
    /\ LET b == Head(anchor.builders)
           n == anchor.taken + 1
           a == [anchor EXCEPT !.builders = Tail(@), !.taken = n]
       IN IF anchor.simulate
          THEN IF anchor.print_only
               THEN anchor' = AnchorPrint(a, b)
               ELSE \E r \in AnchorSimulationResults(b) :
                       LET done == AnchorSimulate(a, b, n, r)
                       IN anchor' = IF done.at = "returned" THEN done
                                    ELSE [done EXCEPT !.count = @ + 1]
          ELSE IF anchor.print_only
               THEN anchor' = AnchorPrint(a, b)
               ELSE \E r \in AnchorSendResults(b) : anchor' = AnchorSend(a, b, n, r)
    /\ AnchorUnchanged

\* execute_with_config once the builders are exhausted: the warning of
\* simulate mode when count > 1, then Ok(())
execute_with_config_end ==
    /\ anchor.at = "loop"
    /\ anchor.builders = <<>>
    /\ anchor' = AnchorOk([anchor EXCEPT !.warned = anchor.simulate /\ anchor.count > 1])
    /\ AnchorUnchanged

\* execute_single_with_config: print when print_only; then simulate when
\* simulate, else send when not print_only
execute_single_with_config ==
    /\ anchor.at = "single"
    /\ LET b == Head(anchor.builders)
           a == [anchor EXCEPT !.builders = Tail(@), !.taken = 1]
           p == IF anchor.print_only THEN AnchorPrint(a, b) ELSE a
       IN IF p.at = "returned"
          THEN anchor' = p
          ELSE IF anchor.simulate
          THEN \E r \in AnchorSimulationResults(b) :
                  LET done == AnchorSimulate(p, b, 1, r)
                  IN anchor' = IF done.at = "returned" THEN done ELSE AnchorOk(done)
          ELSE IF ~anchor.print_only
          THEN \E r \in AnchorSendResults(b) :
                  LET done == AnchorSend(p, b, 1, r)
                  IN anchor' = IF done.at = "returned" THEN done ELSE AnchorOk(done)
          ELSE anchor' = AnchorOk(p)
    /\ AnchorUnchanged

InitAnchor ==
    /\ fee_payer = FeePayer
    /\ signers = {FeePayer}
    /\ is_check_signers = TRUE
    /\ max_transaction_size = PACKET_DATA_SIZE
    /\ instruction_packs = <<>>
    /\ InitClient
    /\ result = Res("new", "Ok", 0)
    /\ prepared = NoPrepared
    /\ sign_log = <<>>
    /\ pc = "idle"
    /\ blockhash_failure_retries = -1
    /\ retry_count = 0
    /\ last_error = UnknownRetryFailure
    /\ latest_hash = DefaultHash
    /\ ret = NoReturn
    /\ observed = UnknownRetryFailure
    /\ fetches = 0
    /\ signs = 0
    /\ submits = 0
    /\ lookup = NoLookup
    /\ run = NoRun
    /\ caller = NoCaller
    /\ \E simulate \in BOOLEAN : \E print_only \in BOOLEAN :
          \/ \E k \in 0..AnchorMaxBuilders : \E bs \in [1..k -> AnchorBuilders] :
                anchor = [NoAnchor EXCEPT !.at = "loop",
                                          !.entry = "execute_with_config",
                                          !.simulate = simulate,
                                          !.print_only = print_only,
                                          !.given = bs, !.builders = bs]
          \/ \E b \in AnchorBuilders :
                anchor = [NoAnchor EXCEPT !.at = "single",
                                          !.entry = "execute_single_with_config",
                                          !.simulate = simulate,
                                          !.print_only = print_only,
                                          !.given = <<b>>, !.builders = <<b>>]

NextAnchor ==
    \/ execute_with_config_next
    \/ execute_with_config_end
    \/ execute_single_with_config

SpecAnchor == InitAnchor /\ [][NextAnchor]_vars

-----------------------------------------------------------------------------
(* The anchor-builder helpers of marinade-common-rs *)

\* an anchor_client::ClientError of send_with_spinner_and_config: the variant,
\* the kind of a SolanaClientError, and the logs of a preflight failure
SendError(v, kind, has_logs, logs) ==
    [variant |-> v, kind |-> kind, has_logs |-> has_logs, logs |-> logs]

HelperSendErrors ==
    {SendError("SolanaClientError", "PreflightFailure", TRUE, <<"log 2", "log 1">>),
     SendError("SolanaClientError", "PreflightFailure", FALSE, <<>>),
     SendError("SolanaClientError", "TransactionError", FALSE, <<>>),
     SendError("SolanaClientError", "Io", FALSE, <<>>),
     SendError("ProgramError", "None", FALSE, <<>>)}

\* the arms of execute_from_anchor_builders that reach bail!(err): a
\* SolanaClientError that is a preflight failure with logs, and every error
\* that is no SolanaClientError
SendErrorBails(e) ==
    IF e.variant = "SolanaClientError"
    THEN e.kind = "PreflightFailure" /\ e.has_logs
    ELSE TRUE

\* the arm of simulate_from_anchor_builders that reaches bail!(err): an Err
\* that is a preflight failure with logs
SimulationBails(r) == ~r.ok /\ r.kind = "PreflightFailure"

\* execute_from_anchor_builders, one turn of the loop: the builder is sent; an
\* error is logged and bailed with only in the arms that bail
execute_from_anchor_builders_next ==
    /\ anchor.at = "helper"
    /\ anchor.entry = "execute_from_anchor_builders"
    /\ anchor.builders # <<>>
    /\ LET b == Head(anchor.builders)
           n == anchor.taken + 1
           a == [anchor EXCEPT !.builders = Tail(@), !.taken = n,
                               !.sent = IF b.valid THEN Append(@, n) ELSE @]
       IN \/ /\ b.valid
             /\ anchor' = a
          \/ \E e \in HelperSendErrors :
                /\ b.valid \/ e.variant # "SolanaClientError"
                /\ LET logged == [a EXCEPT !.failed = Append(@, n),
                                           !.emitted = @ \o e.logs]
                   IN anchor' = IF SendErrorBails(e)
                                THEN AnchorErr(logged, Err(e.variant, e.kind, ""))
                                ELSE logged
    /\ AnchorUnchanged

\* simulate_from_anchor_builders, one turn of the loop: builder.transaction()?
\* then simulate_transaction; the logs are written, a result with err set is
\* reported with info!, an Err bails only as a preflight failure with logs
simulate_from_anchor_builders_next ==
    /\ anchor.at = "helper"
    /\ anchor.entry = "simulate_from_anchor_builders"
    /\ anchor.builders # <<>>
    /\ LET b == Head(anchor.builders)
           n == anchor.taken + 1
           a == [anchor EXCEPT !.builders = Tail(@), !.taken = n]
       IN IF ~b.valid
          THEN anchor' = AnchorErr(a, Err("ForUser", "None", "transaction"))
          ELSE \E r \in NodeSimulationResults :
                  LET called == [a EXCEPT
                                   !.simulated = Append(@, n),
                                   !.emitted = @ \o LogLines(r),
                                   !.failed = IF SimulationFailed(r)
                                              THEN Append(@, n) ELSE @]
                  IN anchor' = IF SimulationBails(r)
                               THEN AnchorErr(called, Err(r.kind, r.err, ""))
                               ELSE called
    /\ AnchorUnchanged

\* the Ok(()) after the loop of either helper
anchor_builders_end ==
    /\ anchor.at = "helper"
    /\ anchor.builders = <<>>
    /\ anchor' = AnchorOk(anchor)
    /\ AnchorUnchanged

InitHelpers ==
    /\ fee_payer = FeePayer
    /\ signers = {FeePayer}
    /\ is_check_signers = TRUE
    /\ max_transaction_size = PACKET_DATA_SIZE
    /\ instruction_packs = <<>>
    /\ InitClient
    /\ result = Res("new", "Ok", 0)
    /\ prepared = NoPrepared
    /\ sign_log = <<>>
    /\ pc = "idle"
    /\ blockhash_failure_retries = -1
    /\ retry_count = 0
    /\ last_error = UnknownRetryFailure
    /\ latest_hash = DefaultHash
    /\ ret = NoReturn
    /\ observed = UnknownRetryFailure
    /\ fetches = 0
    /\ signs = 0
    /\ submits = 0
    /\ lookup = NoLookup
    /\ run = NoRun
    /\ caller = NoCaller
    /\ \E simulate \in BOOLEAN :
          \E k \in 0..AnchorMaxBuilders : \E bs \in [1..k -> AnchorBuilders] :
             anchor = [NoAnchor EXCEPT
                         !.at = "helper",
                         !.entry = IF simulate THEN "simulate_from_anchor_builders"
                                   ELSE "execute_from_anchor_builders",
                         !.simulate = simulate,
                         !.given = bs, !.builders = bs]

NextHelpers ==
    \/ execute_from_anchor_builders_next
    \/ simulate_from_anchor_builders_next
    \/ anchor_builders_end

SpecHelpers == InitHelpers /\ [][NextHelpers]_vars

-----------------------------------------------------------------------------
(* get_account_retrying of marinade-common-rs *)

GetAccountMaxFailures == 3

Commitments == {"processed", "confirmed", "finalized"}

\* RpcClientHelpers::get_account_retrying, one turn of its loop: the node is
\* asked with get_account_with_commitment; Ok breaks the loop with the account
\* or its absence, Err is logged with warn! and the call is repeated. The
\* node fails lookup.failing more times, or every time when lookup.forever.
\* failed_calls counts the failed calls up to GetAccountMaxFailures + 1.
get_account_retrying ==
    /\ lookup.at = "loop"
    /\ IF lookup.forever \/ lookup.failing > 0
       THEN lookup' = [lookup EXCEPT
                         !.failing = IF lookup.forever THEN @ ELSE @ - 1,
                         !.failed_calls = IF @ > GetAccountMaxFailures
                                          THEN @ ELSE @ + 1]
       ELSE lookup' = [lookup EXCEPT !.at = "returned",
                                     !.returned = lookup.stored]
    /\ UNCHANGED <<bvars, sign_log, pc, blockhash_failure_retries, retry_count,
                   last_error, latest_hash, ret, observed, fetches, signs,
                   submits, run, anchor, caller>>

InitGetAccount ==
    /\ fee_payer = FeePayer
    /\ signers = {FeePayer}
    /\ is_check_signers = TRUE
    /\ max_transaction_size = PACKET_DATA_SIZE
    /\ instruction_packs = <<>>
    /\ InitClient
    /\ result = Res("new", "Ok", 0)
    /\ prepared = NoPrepared
    /\ sign_log = <<>>
    /\ pc = "idle"
    /\ blockhash_failure_retries = -1
    /\ retry_count = 0
    /\ last_error = UnknownRetryFailure
    /\ latest_hash = DefaultHash
    /\ ret = NoReturn
    /\ observed = UnknownRetryFailure
    /\ fetches = 0
    /\ signs = 0
    /\ submits = 0
    /\ run = NoRun
    /\ anchor = NoAnchor
    /\ caller = NoCaller
    /\ \E k \in {AccA, K1} : \E c \in Commitments :
       \E f \in 0..GetAccountMaxFailures : \E forever \in BOOLEAN :
       \E stored \in {"Some", "None"} :
          /\ forever => f = 0
          /\ lookup = [NoLookup EXCEPT !.at = "loop", !.account_pubkey = k,
                                       !.commitment = c, !.failing = f,
                                       !.forever = forever, !.stored = stored]

\* the thread that called get_account_retrying keeps running
SpecGetAccount ==
    InitGetAccount /\ [][get_account_retrying]_vars /\ WF_vars(get_account_retrying)

-----------------------------------------------------------------------------
(* A caller that packs by committing on overflow *)

\* the largest number of identical instructions the maximum is sized for
PackingMaxK == 2

\* a pack of k copies of the instruction d
Identical(d, k) == [i \in 1..k |-> Elem(d, DescriptionOf(d))]

CallerUnchanged ==
    UNCHANGED <<sign_log, pc, blockhash_failure_retries, retry_count, last_error,
                latest_hash, ret, observed, fetches, signs, submits, run, anchor,
                lookup>>

\* the transaction-utils caller opens a pack with begin
caller_begin ==
    /\ caller.at = "begin"
    /\ Alive
    /\ Begin
    /\ caller' = [caller EXCEPT !.at = IF result'.status = "Ok" THEN "add" ELSE "failed"]
    /\ CallerUnchanged

\* the caller adds its instruction: Ok counts it, TooBigTransaction sends the
\* caller to commit the pack and add the instruction again
caller_add_instruction ==
    /\ caller.at = "add"
    /\ Alive
    /\ AddInstruction(caller.instruction) \/ UtilsAddInstruction(caller.instruction)
    /\ caller' =
         IF result'.status = "Ok"
         THEN [caller EXCEPT !.added = @ + 1, !.again = FALSE,
                             !.at = IF caller.added + 1 = caller.n THEN "end" ELSE "add"]
         ELSE IF result'.status = "TooBigTransaction"
         THEN [caller EXCEPT !.failures = @ + 1, !.at = "overflow"]
         ELSE [caller EXCEPT !.at = "failed"]
    /\ CallerUnchanged

\* the caller commits the current pack: after an overflow to go on adding, at
\* the end to close the last pack
caller_commit ==
    /\ caller.at \in {"overflow", "end"}
    /\ Alive
    /\ FinishInstructionPack \/ Commit
    /\ caller' = [caller EXCEPT !.again = (caller.at = "overflow"),
                                !.at =
                    IF result'.status # "Ok" THEN "failed"
                    ELSE IF caller.at = "end" THEN "done"
                    ELSE IF variant = "client" THEN "add" ELSE "begin"]
    /\ CallerUnchanged

InitPacking ==
    /\ fee_payer = FeePayer
    /\ signers = {FeePayer, K1, K2}
    /\ is_check_signers = TRUE
    /\ instruction_packs = <<>>
    /\ (InitClient \/ InitUtils)
    /\ result = Res("new", "Ok", 0)
    /\ prepared = NoPrepared
    /\ sign_log = <<>>
    /\ pc = "idle"
    /\ blockhash_failure_retries = -1
    /\ retry_count = 0
    /\ last_error = UnknownRetryFailure
    /\ latest_hash = DefaultHash
    /\ ret = NoReturn
    /\ observed = UnknownRetryFailure
    /\ fetches = 0
    /\ signs = 0
    /\ submits = 0
    /\ lookup = NoLookup
    /\ run = NoRun
    /\ anchor = NoAnchor
    /\ \E d \in Instructions : \E k \in 1..PackingMaxK : \E n \in 1..MaxInstructions :
          /\ max_transaction_size = PackSize(Identical(d, k))
          /\ caller = [at |-> IF variant = "client" THEN "add" ELSE "begin",
                       instruction |-> d, k |-> k, n |-> n, added |-> 0,
                       failures |-> 0, again |-> FALSE]

NextPacking ==
    \/ caller_begin
    \/ caller_add_instruction
    \/ caller_commit

SpecPacking == InitPacking /\ [][NextPacking]_vars

\* the current pack the caller starts on: empty, or one instruction
StartedPacks ==
    {<<>>} \cup {<<Elem(e, DescriptionOf(e))>> : e \in Instructions}

\* the same caller on a builder of any configured maximum, its current pack
\* empty or begun
InitRecover ==
    /\ fee_payer = FeePayer
    /\ signers = {FeePayer, K1, K2}
    /\ is_check_signers = TRUE
    /\ instruction_packs = <<>>
    /\ variant \in {"client", "utils"}
    /\ max_transaction_size \in MaxSizeChoices
    /\ result = Res("new", "Ok", 0)
    /\ prepared = NoPrepared
    /\ sign_log = <<>>
    /\ pc = "idle"
    /\ blockhash_failure_retries = -1
    /\ retry_count = 0
    /\ last_error = UnknownRetryFailure
    /\ latest_hash = DefaultHash
    /\ ret = NoReturn
    /\ observed = UnknownRetryFailure
    /\ fetches = 0
    /\ signs = 0
    /\ submits = 0
    /\ lookup = NoLookup
    /\ run = NoRun
    /\ anchor = NoAnchor
    /\ \E started \in StartedPacks :
          /\ started = <<>> \/ ~TooBig(started)
          /\ current_instruction_pack =
                IF variant = "utils" /\ started = <<>> THEN NoPack ELSE SomePack(started)
    /\ \E d \in Instructions : \E n \in 1..(MaxInstructions - 1) :
          caller = [at |-> IF current_instruction_pack.some THEN "add" ELSE "begin",
                    instruction |-> d, k |-> 0, n |-> n, added |-> 0,
                    failures |-> 0, again |-> FALSE]

SpecRecover == InitRecover /\ [][NextPacking]_vars

-----------------------------------------------------------------------------
(* Properties of the builder *)

\* C1: with a nonzero max_transaction_size every pack of the committed queue,
\* serialized as a transaction with the fee payer, measures at most
\* max_transaction_size.
C1_CommittedPacksFit ==
    max_transaction_size > 0 =>
        \A i \in DOMAIN instruction_packs :
            PackSize(instruction_packs[i]) <= max_transaction_size

\* the state C1 fails in: an empty pack committed under a maximum below the size
\* of a transaction without instructions
C1_EmptyPackOversize ==
    /\ max_transaction_size > 0
    /\ \E i \in DOMAIN instruction_packs :
          /\ instruction_packs[i] = <<>>
          /\ PackSize(instruction_packs[i]) > max_transaction_size

AddStep(ix) == add_instruction(ix) \/ utils_add_instruction(ix)

\* the signer-flagged account of ix that comes first in its account list among
\* those with no capability in the registry
IsFirstUnregisteredSigner(ix, key) ==
    \E i \in DOMAIN ix.accounts :
        /\ ix.accounts[i].pubkey = key
        /\ ix.accounts[i].is_signer
        /\ key \notin signers
        /\ \A j \in 1..(i - 1) :
              ~ix.accounts[j].is_signer \/ ix.accounts[j].pubkey \in signers

HasUnregisteredSigner(ix) ==
    \E i \in DOMAIN ix.accounts :
        ix.accounts[i].is_signer /\ ix.accounts[i].pubkey \notin signers

BuilderUntouched ==
    /\ instruction_packs' = instruction_packs
    /\ current_instruction_pack' = current_instruction_pack
    /\ signers' = signers

\* C2: with signer checking enabled, add_instruction of an instruction with a
\* signer-flagged account missing from the registry fails with UnknownSigner of
\* the first such account in account order, and the committed queue, the current
\* pack and the registry are what they were before the call.
C2_UnknownSignerAtomic ==
    [][\A ix \in Instructions :
          (AddStep(ix) /\ is_check_signers /\ HasUnregisteredSigner(ix)) =>
              /\ result'.status = "UnknownSigner"
              /\ IsFirstUnregisteredSigner(ix, result'.key)
              /\ BuilderUntouched]_vars

\* Scenario B: only the fee payer is registered, ixB names K2 before K1, the call
\* fails with UnknownSigner(K2) and the pack is still empty
C2_Witness ==
    /\ result.status = "UnknownSigner"
    /\ result.key = K2
    /\ signers = {FeePayer}
    /\ instruction_packs = <<>>
    /\ current_instruction_pack.pack = <<>>

\* C3: when add_instruction fails with TooBigTransaction the committed queue, the
\* current pack (or the absence of an open pack) and the registry are what they
\* were before the call; and it fails so whenever the candidate exceeds a nonzero
\* maximum.
C3_TooBigAtomic ==
    [][\A ix \in Instructions :
          AddStep(ix) =>
              /\ result'.status = "TooBigTransaction" => BuilderUntouched
              /\ ( /\ result'.status \notin {"UnknownSigner", "Panic"}
                   /\ max_transaction_size > 0
                   /\ PackSize(Append(current_instruction_pack.pack,
                                      Elem(ix, DescriptionOf(ix))))
                        > max_transaction_size )
                 => result'.status = "TooBigTransaction"]_vars

\* a third ixA refused by a pack that two ixA fill to the byte
C3_Witness ==
    /\ result.status = "TooBigTransaction"
    /\ max_transaction_size = PACKET_DATA_SIZE
    /\ Len(current_instruction_pack.pack) = 2
    /\ PackSize(current_instruction_pack.pack) = PACKET_DATA_SIZE

CombinedStep == build_next_combined \/ utils_build_next_combined

\* C4: build_next_combined never reorders. Each call that returns a transaction
\* returns the instructions of the first n >= 1 packs of the queue, whole and in
\* order, and leaves the other packs in order; drained until None, the queue
\* yields transactions whose instruction lists, concatenated, are the
\* concatenation of the committed packs.
C4_CombinedKeepsOrder ==
    /\ [](Flatten(DrainCombined(QueueAtBuild)) = Flatten(QueueAtBuild))
    /\ [][(CombinedStep /\ result'.status = "Some") =>
            \E n \in 1..Len(QueueAtBuild) :
                /\ result'.consumed = n
                /\ prepared'.transaction.instructions
                     = Flatten(SubSeq(QueueAtBuild, 1, n))
                /\ instruction_packs'
                     = SubSeq(QueueAtBuild, n + 1, Len(QueueAtBuild))]_vars

\* two packs merged into one transaction, a third one left in the queue because
\* it did not fit
C4_Witness ==
    /\ result.op = "build_next_combined"
    /\ result.status = "Some"
    /\ result.consumed = 2
    /\ max_transaction_size > 0
    /\ Len(instruction_packs) = 1
    /\ prepared.transaction.instructions # <<>>
    /\ instruction_packs[1] # <<>>

\* C5: with a nonzero max_transaction_size every transaction returned by
\* build_next_combined measures at most max_transaction_size.
C5_CombinedFits ==
    ( /\ result.op = "build_next_combined"
      /\ result.status = "Some"
      /\ max_transaction_size > 0 )
    => SerializedSize(prepared.transaction) <= max_transaction_size

\* the signer-flagged accounts of a list of instructions, and the fee payer
RequiredSigners(ixs) ==
    {fee_payer} \cup
    {k \in {FeePayer, K1, K2, AccA, Prog} :
        \E i \in DOMAIN ixs : \E j \in DOMAIN ixs[i].ix.accounts :
            ixs[i].ix.accounts[j].pubkey = k /\ ixs[i].ix.accounts[j].is_signer}

\* the signers list holds one capability per signature slot, in slot order, for
\* exactly the fee payer and the signer-flagged accounts, the fee payer first
SignersCoverSlots(p) ==
    /\ Len(p.signers) = Cardinality(RequiredSigners(p.transaction.instructions))
    /\ Range(p.signers) = RequiredSigners(p.transaction.instructions)
    /\ p.signers[1] = fee_payer
    /\ Len(p.signers) = Len(p.transaction.signatures)
    /\ \A i \in DOMAIN p.signers : p.signers[i] = p.transaction.account_keys[i]

\* C6 as stated: every PreparedTransaction returned by build_next or
\* build_next_combined has the signers of all its signature slots, fee payer first.
C6_SignersRoundTrip ==
    result.status = "Some" => SignersCoverSlots(prepared)

\* C6 amended: that holds while signer checking is enabled; a builder switched to
\* with_no_signers_check returns PreparedTransactions with an empty signers list.
C6_SignersRoundTripStrict ==
    result.status = "Some" =>
        IF is_check_signers THEN SignersCoverSlots(prepared)
        ELSE prepared.signers = <<>>

\* a transaction of ixA and ixB drained in strict mode: slots of the fee payer, K1, K2
C6_Witness ==
    /\ result.status = "Some"
    /\ is_check_signers
    /\ Range(prepared.signers) = {FeePayer, K1, K2}
    /\ Len(prepared.transaction.instructions) >= 2

-----------------------------------------------------------------------------
(* Properties of signing and of the retry loop *)

LastSign == sign_log[Len(sign_log)]

PreviousSign == sign_log[Len(sign_log) - 1]

Resigned == Len(sign_log) >= 2 /\ LastSign.token # PreviousSign.token

\* C7: after sign(t1) followed by sign(t2) with t2 # t1 the transaction carries
\* the blockhash t2, no signature slot holds a signature made over t1, and once
\* sign(t2) has returned Ok every signature slot holds the signature of the key
\* of that slot over the message with t2.
C7_ResignReplaces ==
    Resigned =>
        LET tx == prepared.transaction
        IN /\ tx.recent_blockhash = LastSign.token
           /\ \A i \in DOMAIN tx.signatures :
                 tx.signatures[i].blockhash # PreviousSign.token
           /\ LastSign.ok =>
                 \A i \in DOMAIN tx.signatures :
                    tx.signatures[i] = [signer |-> tx.account_keys[i],
                                        blockhash |-> LastSign.token]

\* both calls signed, the transaction has more than one signature slot
C7_Witness ==
    /\ Resigned
    /\ PreviousSign.ok
    /\ LastSign.ok
    /\ Len(prepared.transaction.signatures) >= 2

Budget == IF blockhash_failure_retries < 0 THEN 0 ELSE blockhash_failure_retries

\* C8: when the first k <= R submissions fail with the transient error and
\* submission k+1 succeeds, the call returns the signature made in attempt k+1,
\* after exactly k+1 blockhash fetches and k+1 sign operations.
C8_TransientThenSuccess ==
    ret.status = "Ok" =>
        /\ submits = retry_count + 1
        /\ retry_count <= Budget
        /\ fetches = submits
        /\ signs = submits
        /\ ret.signature = [signer |-> fee_payer, blockhash |-> latest_hash]
        /\ latest_hash \in Blockhashes

\* budget 2, two transient failures, the third submission succeeds
C8_Witness ==
    /\ ret.status = "Ok"
    /\ blockhash_failure_retries = 2
    /\ fetches = 3
    /\ submits = 3

\* C9: for a budget R (None meaning 0) at most R+1 attempts are made, and when
\* all R+1 attempts have failed transiently the call returns the error of the
\* last attempt: not an earlier one, not success, and it does return.
C9_RetryBounded ==
    /\ fetches <= Budget + 1
    /\ signs <= Budget + 1
    /\ submits <= Budget + 1
    /\ ret.status # "Panic"
    /\ submits = Budget + 1 /\ pc \notin {"sign", "submit"} /\ ret.status # "Ok" =>
          /\ pc = "done"
          /\ ret.status = "Err"
          /\ ret.error = observed

\* a step in which a fetch, a sign or a submit fails
ErrorStep ==
    /\ pc \in {"fetch", "sign", "submit"}
    /\ pc' \in {"fetch", "done"}
    /\ ret'.status # "Ok"

EndsWithThatError ==
    /\ pc' = "done"
    /\ ret'.status = "Err"
    /\ ret'.error = observed'

TransientShape(e) ==
    \/ e.kind \in {"PreflightFailure", "TransactionError"} /\ e.tx_err = "BlockhashNotFound"
    \/ /\ e.kind = "ForUser"
       /\ e.message \in {"unable to confirm transaction. This can happen",
                         "Unable To Confirm Transaction"}

-----------------------------------------------------------------------------
\* a call of add_signer or add_signer_checked has just returned
Registering ==
    /\ result'.op \in {"add_signer", "add_signer_checked"}
    /\ result' # result

\* C16: every add_signer and add_signer_checked call leaves the registry with
\* the entries it had and one entry of the key registered, the key the call
\* answers with: a key already present adds no entry, no other key is added or
\* lost and the key stays resolvable; a checking builder keeps the fee payer's
\* entry throughout.
C16_RegisterIdempotent ==
    /\ [](is_check_signers => fee_payer \in signers)
    /\ [][Registering =>
            /\ result'.key \in CallerKeypairs
            /\ signers' = signers \cup {result'.key}
            /\ result'.key \in signers =>
                  Cardinality(signers') = Cardinality(signers)
            /\ result'.status = "Ok"]_vars

\* add_signer has registered K1 on a checking builder whose committed pack
\* holds an instruction K1 signs, so K1 was registered before: the fee payer,
\* K1 and K2 are the three entries
C16_Witness ==
    /\ result = Res("add_signer", "Ok", K1)
    /\ is_check_signers
    /\ signers = {FeePayer, K1, K2}
    /\ \E i \in DOMAIN instruction_packs : \E j \in DOMAIN instruction_packs[i] :
          \E a \in DOMAIN instruction_packs[i][j].ix.accounts :
             /\ instruction_packs[i][j].ix.accounts[a].pubkey = K1
             /\ instruction_packs[i][j].ix.accounts[a].is_signer

\* every signer-flagged account of ix has an entry in the registry
SignersCovered(ix) ==
    \A a \in DOMAIN ix.accounts :
       ix.accounts[a].is_signer => ix.accounts[a].pubkey \in signers

\* C17: with signer checking enabled check_signers accepts an instruction if
\* and only if each of its signer-flagged accounts is registered, wherever it
\* stands in the account list; accounts not flagged never make it fail; with
\* checking disabled every instruction is accepted. add_instruction fails with
\* UnknownSigner exactly when check_signers rejects.
C17_CheckSignersExact ==
    /\ [](\A ix \in Instructions :
            /\ is_check_signers => (check_signers(ix) <=> SignersCovered(ix))
            /\ ~is_check_signers => check_signers(ix))
    /\ [][\A ix \in Instructions :
            AddStep(ix) =>
               (result'.status = "UnknownSigner" <=>
                   (is_check_signers /\ ~SignersCovered(ix)))]_vars

\* ixB, signed by K2, K1 and the fee payer in that order, was accepted by a
\* checking builder that holds the three of them
C17_Witness ==
    /\ is_check_signers
    /\ signers = {FeePayer, K1, K2}
    /\ result = Res("add_instruction", "Ok", 0)
    /\ current_instruction_pack.pack # <<>>
    /\ current_instruction_pack.pack[Len(current_instruction_pack.pack)].ix = ixB

\* the sizes of the committed packs, in queue order
PackLengths == [i \in DOMAIN instruction_packs |-> Len(instruction_packs[i])]

\* C18: with the maximum at the size of exactly k copies of an instruction, a
\* caller that adds n copies, commits and adds again on each
\* TooBigTransaction and commits once at the end, ends with packs of k, k, ..,
\* and the remainder, after exactly floor((n-1)/k) TooBigTransaction failures;
\* no other error occurs on the way and a failure occurs only on a full pack.
C18_CommitOnOverflow ==
    LET k == caller.k
        n == caller.n
        full == (n - 1) \div k
    IN /\ caller.at # "failed"
       /\ caller.at = "overflow" => Len(current_instruction_pack.pack) = k
       /\ caller.at # "idle" => caller.failures <= full
       /\ caller.at = "done" =>
             /\ caller.failures = full
             /\ current_instruction_pack.pack = <<>>
             /\ Len(instruction_packs) = full + 1
             /\ \A i \in DOMAIN instruction_packs :
                   instruction_packs[i] =
                      Identical(caller.instruction, IF i <= full THEN k ELSE n - k * full)

\* Scenario A: k = 2 and n = 3 give packs of 2 then 1 after one failure
C18_Witness ==
    /\ caller.at = "done"
    /\ caller.k = 2
    /\ caller.n = 3
    /\ caller.failures = 1
    /\ PackLengths = <<2, 1>>

\* C19: whenever add_instruction fails with TooBigTransaction, committing the
\* current pack and adding the same instruction again succeeds: the caller
\* never meets TooBigTransaction on the add that follows its commit, whatever
\* the instruction and the current pack, an empty one included.
C19_TooBigRecoverable ==
    /\ caller.at # "failed"
    /\ ~(caller.at = "overflow" /\ caller.again)

\* the maximum is 100 bytes: the instruction was refused on the empty pack,
\* the empty pack was committed, and the instruction was refused again
C19_Witness ==
    /\ caller.at = "overflow"
    /\ caller.again
    /\ caller.failures = 2
    /\ caller.added = 0
    /\ current_instruction_pack.pack = <<>>
    /\ max_transaction_size > 0

\* C20: sign on a PreparedTransaction that build_next or build_next_combined
\* returned, of a checking builder or of one switched to
\* with_no_signers_check, fails only when one of its capabilities refuses to
\* sign, never because a required signature slot is left without capability.
C20_SignNeverLacksCapability ==
    \A i \in DOMAIN sign_log :
       ~sign_log[i].ok => sign_log[i].err = "SignerRefused"

\* the PreparedTransaction of a builder switched to with_no_signers_check
\* holds no capability and sign has failed with NotEnoughSigners
C20_Witness ==
    /\ ~is_check_signers
    /\ prepared.some
    /\ prepared.signers = <<>>
    /\ sign_log # <<>>
    /\ sign_log[Len(sign_log)].err = "NotEnoughSigners"

(* Properties of execute_transaction_builder *)

Executing == run.at # "idle" /\ ~run.simulate

LoopRunning == pc \in {"fetch", "sign", "submit", "done"}

\* C11: in execute mode the envelopes are processed one at a time in drain
\* order: while an envelope is fetched for, signed or submitted every earlier
\* envelope is confirmed, the next one is built only after that; once an
\* envelope has ended in an error the call has returned that error, nothing is
\* built, signed or submitted afterwards and what was confirmed stays confirmed.
C11_FailFastSequential ==
    /\ [](Executing =>
            /\ Flatten(run.yielded) \o instructions = run.started
            /\ LoopRunning => run.at = "execute" /\ Len(run.yielded) = run.confirmed + 1
            /\ run.at = "iterate" => ~LoopRunning /\ Len(run.yielded) = run.confirmed
            /\ run.outcome.status = "Err" =>
                  /\ run.at = "returned"
                  /\ ~LoopRunning
                  /\ run.outcome.error = ret.error
                  /\ Len(run.yielded) = run.confirmed + 1
            /\ run.outcome.status = "Ok" =>
                  /\ instructions = <<>>
                  /\ Len(run.yielded) = run.confirmed)
    /\ [][Executing =>
            /\ run.outcome.status = "none"
            /\ run'.confirmed >= run.confirmed
            /\ Len(run'.yielded) > Len(run.yielded) =>
                  Len(run.yielded) = run.confirmed
            /\ submits' > submits => Len(run.yielded) = run.confirmed + 1]_vars

\* the second of three envelopes failed: one is confirmed, one pack is left
C11_Witness ==
    /\ Executing
    /\ run.outcome.status = "Err"
    /\ run.confirmed = 1
    /\ instruction_packs # <<>>
    /\ submits >= 2

SimulateReturned == run.simulate /\ run.at = "returned" /\ Len(run.expected) >= 1

\* C12: in simulate mode on a builder that yields n >= 1 combined envelopes
\* exactly one simulate call is made, on the first envelope, no submit call is
\* made, and the warning that the rest was not simulated is emitted if and only
\* if n > 1.
C12_SimulateOnlyFirst ==
    /\ run.simulate => submits = 0 /\ Len(run.simulated) <= 1
    /\ SimulateReturned =>
          /\ run.simulated = <<1>>
          /\ run.warned <=> Len(run.expected) > 1

\* C12 as the code behaves: the warning is emitted if and only if n > 1 and the
\* simulation of the first envelope succeeded; a failed simulation returns its
\* error at once, without the warning and without building the other envelopes.
C12_SimulateOnlyFirstWarnOnSuccess ==
    /\ run.simulate => submits = 0 /\ Len(run.simulated) <= 1
    /\ SimulateReturned =>
          /\ run.simulated = <<1>>
          /\ run.warned <=> (Len(run.expected) > 1 /\ run.outcome.status = "Ok")
          /\ run.outcome.status = "Ok" => Len(run.yielded) = Len(run.expected)
          /\ run.outcome.status = "Err" => Len(run.yielded) = 1

\* three envelopes, the first simulated, the warning emitted
C12_Witness ==
    /\ SimulateReturned
    /\ Len(run.expected) = 3
    /\ run.number_of_transactions = 3
    /\ run.warned
    /\ run.simulated = <<1>>

SimulationLogged == run.simulated # <<>> /\ run.at \in {"iterate", "returned"}

\* C13: when the simulation of the first envelope returns an error, or a result
\* whose err field is set, the call returns an error and never Ok; the log
\* lines the node returned are emitted in the order the node returned them.
C13_SimulationFailureTerminal ==
    SimulationLogged =>
        LET r == run.simulation_result
        IN /\ (~r.ok \/ r.err # "None") =>
                 /\ run.at = "returned"
                 /\ run.outcome.status = "Err"
           /\ run.emitted = r.logs

\* an Ok result with an on-chain error and two log lines has ended the call
C13_Witness ==
    /\ SimulationLogged
    /\ run.simulation_result.ok
    /\ run.simulation_result.err = "InstructionError"
    /\ run.outcome.status = "Err"
    /\ run.emitted = <<"log 2", "log 1">>

\* the blocks of the instructions the builder held when the call began
BlocksOfStarted == [i \in DOMAIN run.started |-> EncodedBlock(run.started[i].ix)]

\* C15: with print set execute_transaction_builder emits one encoded block per
\* instruction the builder holds, committed packs first and the current pack
\* last, in add order and once, before any envelope is built, simulated or
\* submitted, whatever the pack boundaries and the envelopes they are combined to.
C15_PrintPerInstruction ==
    /\ run.at = "start" =>
          /\ run.printed = <<>>
          /\ run.yielded = <<>> /\ run.simulated = <<>>
          /\ fetches = 0 /\ signs = 0 /\ submits = 0
    /\ run.at \notin {"idle", "start"} =>
          /\ run.print => run.printed = BlocksOfStarted
          /\ ~run.print => run.printed = <<>>
          /\ Len(run.started) = Len(Flatten(run.expected))
    /\ run.outcome.status = "Ok" /\ run.print =>
          /\ Len(run.printed) = Len(Flatten(run.yielded))
          /\ \A i \in DOMAIN run.printed :
                run.printed[i] = EncodedBlock(Flatten(run.yielded)[i].ix)

\* five instructions in two committed packs and the current pack were printed
\* as five blocks and then sent as three envelopes
C15_Witness ==
    /\ run.print
    /\ ~run.simulate
    /\ run.outcome.status = "Ok"
    /\ Len(run.printed) = 5
    /\ run.printed[1] # run.printed[5]
    /\ Len(run.yielded) = 3
    /\ run.confirmed = 3

(* Properties of the anchor-builder pipelines *)

\* C14: with print_only set no entry point of the anchor-builder pipelines
\* simulates or sends a builder, whatever the simulate flag and the number of
\* builders.
C14_PrintOnlyNoNetwork ==
    anchor.print_only => anchor.simulated = <<>> /\ anchor.sent = <<>>

\* execute_single_with_config has simulated its builder although print_only
\* was set
C14_Witness ==
    /\ anchor.entry = "execute_single_with_config"
    /\ anchor.print_only
    /\ anchor.simulate
    /\ anchor.simulated = <<1>>
    /\ anchor.printed # <<>>

(* Properties of draining *)

IsPrefix(p, q) == Len(p) <= Len(q) /\ SubSeq(q, 1, Len(p)) = p

\* C21: with max_transaction_size = 0 and a non-empty committed queue one
\* build_next_combined call returns one transaction that holds the instructions
\* of all committed packs in commit order and leaves the queue empty; a call
\* on an empty queue returns None.
C21_UnboundedDrainsAll ==
    [][CombinedStep /\ max_transaction_size = 0 =>
          /\ instruction_packs # <<>> =>
                /\ result'.status = "Some"
                /\ IsPrefix(Flatten(instruction_packs), prepared'.transaction.instructions)
                /\ instruction_packs' = <<>>
          /\ (instruction_packs = <<>> /\ is_current_pack_empty) =>
                result'.status = "None"]_vars

\* C21 as the code behaves: the transaction-utils builder panics with "Not
\* committed transaction" while a non-empty pack is open and leaves the queue
\* as it is; otherwise the one transaction holds the committed packs in commit
\* order, followed in marinade-client-rs by the open pack the call commits
\* first, the queue and the open pack are empty afterwards, and a call on an
\* empty queue returns None.
C21_UnboundedDrainsAllCommitted ==
    [][CombinedStep /\ max_transaction_size = 0 =>
          IF variant = "utils" /\ ~is_current_pack_empty
          THEN /\ result'.status = "Panic"
               /\ UNCHANGED <<instruction_packs, current_instruction_pack>>
          ELSE /\ QueueAtBuild # <<>> =>
                     /\ result'.status = "Some"
                     /\ result'.consumed = Len(QueueAtBuild)
                     /\ prepared'.transaction.instructions = Flatten(QueueAtBuild)
                     /\ IsPrefix(Flatten(instruction_packs),
                                 prepared'.transaction.instructions)
                     /\ instruction_packs' = <<>>
                     /\ current_instruction_pack'.pack = <<>>
               /\ QueueAtBuild = <<>> =>
                     /\ result'.status = "None"
                     /\ instruction_packs' = <<>>]_vars

\* three packs of one instruction each were drained into one transaction
C21_Witness ==
    /\ max_transaction_size = 0
    /\ result = ResN("build_next_combined", "Some", 0, 3)
    /\ Len(prepared.transaction.instructions) = 3
    /\ instruction_packs = <<>>

\* a group of whole packs merges into an envelope within the maximum
GroupFits(packs) == PackSize(Flatten(packs)) <= max_transaction_size

\* stands for "no partition exists": more groups than the queue has packs
NoPartition == MaxPacks + 2

\* the least number of contiguous groups of whole packs, each within the
\* maximum, the queue can be cut into
RECURSIVE MinGroups(_)
MinGroups(packs) ==
    IF packs = <<>> THEN 0
    ELSE LET cuts == {k \in 1..Len(packs) : GroupFits(SubSeq(packs, 1, k))}
             rest(k) == MinGroups(SubSeq(packs, k + 1, Len(packs)))
         IN IF cuts = {} THEN NoPartition
            ELSE CHOOSE n \in {1 + rest(k) : k \in cuts} :
                    \A k \in cuts : n <= 1 + rest(k)

\* C22: with a nonzero maximum, calling build_next_combined until it returns
\* None yields as many envelopes as the smallest partition of the committed
\* queue into contiguous groups of whole packs that fit the maximum.
C22_GreedyMinimal ==
    max_transaction_size > 0 =>
        Len(DrainCombined(QueueAtBuild)) = MinGroups(QueueAtBuild)

\* an empty pack was committed under a maximum of 100 bytes: it is drained as
\* one envelope of 134 bytes although no group of packs fits the maximum
C22_Witness ==
    /\ max_transaction_size = 100
    /\ instruction_packs = <<<<>>>>
    /\ Len(DrainCombined(QueueAtBuild)) = 1
    /\ MinGroups(QueueAtBuild) = NoPartition
    /\ PackSize(<<>>) > max_transaction_size

\* a build_next or build_next_combined call of either builder
AnyBuildStep == build_next \/ utils_build_next \/ CombinedStep

\* C23: while signer checking is enabled the fee payer and every
\* signer-flagged account of every instruction held, in the committed packs and
\* in the current pack, are in the registry, so build_next and
\* build_next_combined never fail to resolve a signer: the only panic of a
\* build is the open pack of the transaction-utils builder.
C23_SignerCoverage ==
    /\ [](is_check_signers => RequiredSigners(instructions) \subseteq signers)
    /\ []((result.op \in {"build_next", "build_next_combined"}
             /\ result.status = "Panic") => result.key = 0)
    /\ [][(AnyBuildStep /\ is_check_signers /\ QueueAtBuild # <<>>
             /\ (variant = "utils" => is_current_pack_empty)) =>
            /\ result'.status = "Some"
            /\ Range(prepared'.signers) =
                  RequiredSigners(prepared'.transaction.instructions)]_vars

\* a checking builder has drained a pack signed by K2, K1 and the fee payer
\* and still holds a committed pack K1 signs
C23_Witness ==
    /\ is_check_signers
    /\ result.status = "Some"
    /\ Range(prepared.signers) = {FeePayer, K1, K2}
    /\ instruction_packs # <<>>
    /\ K1 \in RequiredSigners(instructions)

\* C24: after any sequence of builder operations every pack of the committed
\* queue holds at least one instruction and no drained transaction has zero
\* instructions.
C24_CommittedPacksNonEmpty ==
    /\ \A i \in DOMAIN instruction_packs : instruction_packs[i] # <<>>
    /\ result.status = "Some" => prepared.transaction.instructions # <<>>

\* finish_instruction_pack has committed the empty current pack and build_next
\* has returned it as a transaction without instructions; another empty pack
\* is queued
C24_Witness ==
    /\ result = ResN("build_next", "Some", 0, 1)
    /\ prepared.transaction.instructions = <<>>
    /\ instruction_packs # <<>>
    /\ instruction_packs[1] = <<>>

(* Properties of the anchor-builder helpers *)

\* C25: in execute_from_anchor_builders a failed send ends the call with that
\* error: no later builder is sent and the call never returns Ok after a
\* failed send.
C25_SendFailureTerminal ==
    anchor.entry = "execute_from_anchor_builders" =>
       /\ anchor.failed # <<>> =>
             /\ anchor.at = "returned"
             /\ anchor.outcome.status = "Err"
             /\ anchor.taken = anchor.failed[1]
       /\ anchor.outcome.status = "Ok" => anchor.failed = <<>>

\* the send of the first builder failed with a transaction error, the second
\* builder was sent all the same and the call returned Ok
C25_Witness ==
    /\ anchor.entry = "execute_from_anchor_builders"
    /\ anchor.failed = <<1>>
    /\ anchor.sent = <<1, 2>>
    /\ anchor.outcome.status = "Ok"

\* C26: in simulate_from_anchor_builders a simulation that returns an error,
\* or a result whose err field is set, ends the call with an error: no
\* further builder is simulated and the call never returns Ok after it.
C26_SimulationFailureTerminal ==
    anchor.entry = "simulate_from_anchor_builders" =>
       /\ anchor.failed # <<>> =>
             /\ anchor.at = "returned"
             /\ anchor.outcome.status = "Err"
             /\ anchor.taken = anchor.failed[1]
       /\ anchor.outcome.status = "Ok" => anchor.failed = <<>>

\* the simulation of the first builder failed, the second builder was
\* simulated all the same and the call returned Ok
C26_Witness ==
    /\ anchor.entry = "simulate_from_anchor_builders"
    /\ anchor.failed = <<1>>
    /\ anchor.simulated = <<1, 2>>
    /\ anchor.outcome.status = "Ok"

\* C27: execute_with_config with simulate = true and print_only = false makes
\* at most one simulate call, for the first builder, and emits the "only the
\* first transaction was simulated" warning exactly when more than one
\* builder was given.
C27_AnchorSimulatesOnlyFirst ==
    (/\ anchor.entry = "execute_with_config"
     /\ anchor.simulate
     /\ ~anchor.print_only) =>
       /\ Len(anchor.simulated) <= 1
       /\ anchor.simulated # <<>> => anchor.simulated[1] = 1
       /\ (anchor.at = "returned" /\ anchor.outcome.status = "Ok") =>
             (anchor.warned <=> Len(anchor.given) > 1)

\* two builders were given in simulate mode, both were simulated, and the
\* warning that only the first was simulated was emitted
C27_Witness ==
    /\ anchor.entry = "execute_with_config"
    /\ anchor.simulate
    /\ ~anchor.print_only
    /\ Len(anchor.given) = 2
    /\ anchor.simulated = <<1, 2>>
    /\ anchor.warned
    /\ anchor.outcome.status = "Ok"

(* Properties of the loops that repeat a remote call *)

\* C28: no loop that repeats a call to the remote node is unbounded:
\* get_account_retrying returns after a bounded number of failed calls, so
\* every call of it eventually returns and never makes more than
\* GetAccountMaxFailures failed calls without returning.
C28_GetAccountReturns ==
    /\ <>(lookup.at = "returned")
    /\ [](lookup.failed_calls > GetAccountMaxFailures => lookup.at = "returned")

\* the node fails every call: get_account_retrying has made more than
\* GetAccountMaxFailures failed calls and is still in its loop
C28_Witness ==
    /\ lookup.forever
    /\ lookup.failed_calls > GetAccountMaxFailures
    /\ lookup.at = "loop"

(* Properties of the execution of one envelope *)

\* Signed: every signature slot is filled by a signature made over the
\* blockhash fetched in the running attempt
SignedOverFetched ==
    /\ latest_hash \in Blockhashes
    /\ prepared.transaction.recent_blockhash = latest_hash
    /\ is_signed(prepared.transaction)
    /\ \A i \in DOMAIN prepared.transaction.signatures :
          prepared.transaction.signatures[i].blockhash = latest_hash

\* the submit step and what may follow it: Confirmed, Failed, or back to
\* Unsent on the transient error with retries remaining
SubmitStep ==
    pc = "submit" =>
       /\ SignedOverFetched
       /\ submits' = submits + 1
       /\ \/ pc' = "done" /\ ret'.status = "Ok"
          \/ pc' = "done" /\ ret'.status = "Err" /\ ret'.error = observed'
          \/ /\ pc' = "fetch"
             /\ Retryable(observed')
             /\ retry_count' <= Budget
             /\ ret'.status = "none"

\* after Confirmed or Failed nothing more is fetched, signed or submitted
TerminalStep ==
    pc = "done" => UNCHANGED <<fetches, signs, submits, ret, prepared>>

C30_AddOpensPack ==
    [][\A ix \in Instructions :
          LET first == <<Elem(ix, DescriptionOf(ix))>>
              passes == IF variant = "client" THEN check_signers(ix)
                        ELSE utils_check_signers(ix)
          IN (AddStep(ix) /\ is_current_pack_empty /\ passes /\ ~TooBig(first)) =>
                /\ result'.status = "Ok"
                /\ \/ current_instruction_pack' = SomePack(first)
                   \/ /\ instruction_packs' = Append(instruction_packs, first)
                      /\ current_instruction_pack' = NoPack]_vars

\* add_instruction of marinade-client-rs called after abort_instruction_pack
\* has taken the current pack: the call panics
C30_Witness ==
    /\ variant = "client"
    /\ ~current_instruction_pack.some
    /\ result = Res("add_instruction", "Panic", 0)

(* Frame properties of add_instruction and build_next *)

\* C31 as stated: after add_instruction returns Ok the added instruction is
\* the last element of the current uncommitted pack, which is the pack before
\* the call with the instruction appended, and the committed queue is
\* unchanged: an add never commits a pack by itself.
C31_AddLeavesPackOpen ==
    [][\A ix \in Instructions :
          (AddStep(ix) /\ result'.status = "Ok") =>
             /\ current_instruction_pack'.some
             /\ current_instruction_pack'.pack
                  = Append(current_instruction_pack.pack, Elem(ix, DescriptionOf(ix)))
             /\ instruction_packs' = instruction_packs]_vars

\* C31: after add_instruction returns Ok on a builder with an open pack (always
\* so in marinade-client-rs, after begin in transaction-utils) the added
\* instruction is the last element of the current uncommitted pack, which is
\* the pack before the call with the instruction appended, and the committed
\* queue is unchanged. In transaction-utils with no pack open the call commits
\* the instruction as a pack of its own and leaves no pack open.
C31_AddLeavesOpenedPackOpen ==
    [][\A ix \in Instructions :
          (AddStep(ix) /\ result'.status = "Ok") =>
             LET e == Elem(ix, DescriptionOf(ix))
             IN IF current_instruction_pack.some
                THEN /\ current_instruction_pack'.some
                     /\ current_instruction_pack'.pack
                          = Append(current_instruction_pack.pack, e)
                     /\ instruction_packs' = instruction_packs
                ELSE /\ variant = "utils"
                     /\ current_instruction_pack' = NoPack
                     /\ instruction_packs' = Append(instruction_packs, <<e>>)]_vars

\* two successful adds in a row: the open pack holds both instructions in the
\* order of the calls and nothing was committed
C31_Witness ==
    /\ result = Res("add_instruction", "Ok", 0)
    /\ current_instruction_pack.some
    /\ Len(current_instruction_pack.pack) = 2
    /\ current_instruction_pack.pack[1].ix # current_instruction_pack.pack[2].ix
    /\ instruction_packs = <<>>

BuildNextStep == build_next \/ utils_build_next

\* C32 as stated: build_next pops committed packs only, first in first out:
\* a call on a non-empty queue returns the instructions of the oldest
\* committed pack and removes that pack, a call on an empty queue returns
\* None, and an open uncommitted pack is left untouched.
C32_BuildNextFifo ==
    [][BuildNextStep =>
          /\ current_instruction_pack' = current_instruction_pack
          /\ IF instruction_packs # <<>>
             THEN /\ result'.status = "Some"
                  /\ prepared'.transaction.instructions = Head(instruction_packs)
                  /\ instruction_packs' = Tail(instruction_packs)
             ELSE /\ result'.status = "None"
                  /\ instruction_packs' = <<>>]_vars

\* C32: build_next pops packs first in first out. With no non-empty pack open
\* a call on a non-empty queue returns the instructions of the oldest
\* committed pack and removes that pack, a call on an empty queue returns
\* None, and the current pack is untouched. With a non-empty pack open,
\* marinade-client-rs first commits that pack to the end of the queue and
\* opens an empty one, then pops the oldest pack; transaction-utils panics
\* and changes nothing.
C32_BuildNextFifoAfterAutoFinish ==
    [][BuildNextStep =>
          IF is_current_pack_empty
          THEN /\ current_instruction_pack' = current_instruction_pack
               /\ IF instruction_packs # <<>>
                  THEN /\ result'.status = "Some"
                       /\ prepared'.transaction.instructions = Head(instruction_packs)
                       /\ instruction_packs' = Tail(instruction_packs)
                  ELSE /\ result'.status = "None"
                       /\ instruction_packs' = <<>>
          ELSE IF variant = "client"
          THEN LET q == Append(instruction_packs, current_instruction_pack.pack)
               IN /\ result'.status = "Some"
                  /\ prepared'.transaction.instructions = Head(q)
                  /\ instruction_packs' = Tail(q)
                  /\ current_instruction_pack'.some
                  /\ current_instruction_pack'.pack = <<>>
          ELSE /\ result'.status = "Panic"
               /\ instruction_packs' = instruction_packs
               /\ current_instruction_pack' = current_instruction_pack]_vars

\* build_next returned the older of two committed packs; the younger one,
\* which holds other instructions, is still queued
C32_Witness ==
    /\ result.op = "build_next"
    /\ result.status = "Some"
    /\ Len(instruction_packs) = 1
    /\ instruction_packs[1] # <<>>
    /\ prepared.transaction.instructions # <<>>
    /\ prepared.transaction.instructions # instruction_packs[1]

(* Properties of the descriptions *)

\* C33: every PreparedTransaction returned by build_next or
\* build_next_combined of transaction-utils has as many descriptions as its
\* transaction has instructions, entry i being the description supplied with
\* instruction i; no description of a pack left in the queue is in it.
C33_DescriptionsAligned ==
    (variant = "utils" /\ prepared.some) =>
       /\ Len(prepared.instruction_descriptions)
            = Len(prepared.transaction.instructions)
       /\ \A i \in DOMAIN prepared.transaction.instructions :
             prepared.instruction_descriptions[i]
               = prepared.transaction.instructions[i].description

\* the merge stopped at a pack that did not fit: the transaction holds the
\* instructions of the packs taken, the descriptions also those of the pack
\* left in the queue
C33_Witness ==
    /\ variant = "utils"
    /\ result.op = "build_next_combined"
    /\ result.status = "Some"
    /\ instruction_packs # <<>>
    /\ prepared.instruction_descriptions
         = Descriptions(prepared.transaction.instructions \o Head(instruction_packs))

(* Properties of the registry *)

\* C34: in every reachable state of the marinade-client-rs builder the
\* registry holds the fee payer's capability, so fee_payer_signer() never
\* panics; no call removes a registered capability, and
\* with_no_signers_check changes only the mode flag.
C34_FeePayerResolvable ==
    /\ [](variant = "client" => fee_payer_signer = "Some")
    /\ [][variant = "client" => signers \subseteq signers']_vars
    /\ [][with_no_signers_check => signers' = signers]_vars

\* after with_no_signers_check the registry is empty: the fee payer's
\* capability is gone and fee_payer_signer() panics
C34_Witness ==
    /\ variant = "client"
    /\ result.op = "with_no_signers_check"
    /\ ~is_check_signers
    /\ signers = {}
    /\ fee_payer_signer = "Panic"

(* Conservation of instructions *)

\* the instructions the builder holds, in the order they leave it: those of
\* the committed packs, then those of the open pack
Pending == Flatten(instruction_packs) \o current_instruction_pack.pack

\* C35: no instruction is lost or duplicated. A successful add puts the
\* instruction behind the instructions held and a failed add (rolled back)
\* puts nothing; a discard removes the instructions of the open pack and
\* nothing else; a build call that returns a transaction takes the
\* instructions it returns from the front of those held and removes them; a
\* build call returns None only when nothing is held; no other call changes
\* what is held. So once draining returns None every instruction added and
\* not discarded was returned exactly once, and no rolled back or discarded
\* instruction was returned.
C35_NothingLostNothingTwice ==
    [][/\ \A ix \in Instructions :
             AddStep(ix) =>
                Pending' = IF result'.status = "Ok"
                           THEN Append(Pending, Elem(ix, DescriptionOf(ix)))
                           ELSE Pending
       /\ (abort_instruction_pack \/ rollback) =>
             Pending' = IF result'.status = "Ok"
                        THEN Flatten(instruction_packs) ELSE Pending
       /\ AnyBuildStep =>
             /\ result'.status = "Some" =>
                   Pending = prepared'.transaction.instructions \o Pending'
             /\ result'.status = "None" => (Pending = <<>> /\ Pending' = <<>>)
             /\ result'.status \notin {"Some", "None"} => Pending' = Pending
       /\ result'.op \notin {"add_instruction", "abort_instruction_pack", "rollback",
                             "build_next", "build_next_combined"} =>
             Pending' = Pending]_vars

\* build_next returned a pack of two instructions and a third instruction,
\* committed after them, is still held
C35_Witness ==
    /\ result.op = "build_next"
    /\ result.status = "Some"
    /\ Len(prepared.transaction.instructions) = 2
    /\ Len(Pending) = 1

(* The single-transaction predicate *)

\* C36: on a non-empty builder fits_single_transaction() is true exactly when
\* the next build_next_combined call returns one transaction holding every
\* instruction of the builder and leaves the builder empty, for nonzero
\* maxima and for the unbounded maximum 0.
C36_FitsAgreesWithCombined ==
    [][(CombinedStep /\ ~(is_current_pack_empty /\ instruction_packs = <<>>)) =>
          (fits_single_transaction <=>
              /\ result'.status = "Some"
              /\ prepared'.transaction.instructions = instructions
              /\ instruction_packs' = <<>>
              /\ current_instruction_pack'.pack = <<>>)]_vars

\* an unbounded builder was drained by one build_next_combined call into one
\* transaction of two instructions, which fits_single_transaction measures as
\* larger than the maximum 0
C36_Witness ==
    /\ max_transaction_size = 0
    /\ result.op = "build_next_combined"
    /\ result.status = "Some"
    /\ Len(prepared.transaction.instructions) = 2
    /\ instructions = <<>>
    /\ instruction_packs = <<>>
    /\ ~(SerializedSize(prepared.transaction) <= max_transaction_size)

(* The retry counter *)

\* C37: with a budget of 65535 and every attempt failing transiently the
\* increment of retry_count never wraps and never traps, and the loop ends
\* after exactly 65536 attempts.
C37_RetryCounterNeverOverflows ==
    /\ [][retry_count' >= retry_count]_vars
    /\ [](ret.status # "Panic")
    /\ [](submits <= blockhash_failure_retries + 1)
    /\ []((pc = "done" /\ observed = BlockhashNotFound) =>
             submits = blockhash_failure_retries + 1)

\* the 65536th attempt has failed transiently and the increment of the
\* counter, which stands at 65535, has trapped
C37_Witness ==
    /\ blockhash_failure_retries = U16_MAX
    /\ retry_count = U16_MAX
    /\ submits = U16_MAX + 1
    /\ ret.status = "Panic"

(* Termination of draining *)

\* C38 as stated: every build_next or build_next_combined call that returns a
\* transaction removes at least one pack from the committed queue and adds
\* none, so a queue of n committed packs yields at most n transactions; a
\* call that returns None leaves the builder empty.
C38_DrainingTerminates ==
    [][AnyBuildStep =>
          /\ result'.status = "Some" =>
                Len(instruction_packs') < Len(instruction_packs)
          /\ result'.status = "None" =>
                (instruction_packs' = <<>> /\ current_instruction_pack'.pack = <<>>)]_vars

\* C38: draining terminates, the packs counted being the committed packs and,
\* in marinade-client-rs, a non-empty open pack, which the build call commits
\* first. Every build_next or build_next_combined call that returns a
\* transaction leaves fewer packs than that count and no instruction in the
\* open pack, so n such packs yield at most n transactions; a call returns
\* None only when the count is 0 and leaves the builder empty. In
\* transaction-utils a call with a non-empty open pack panics and changes
\* nothing.
C38_DrainingTerminatesCountingOpenPack ==
    [][AnyBuildStep =>
          IF variant = "utils" /\ ~is_current_pack_empty
          THEN /\ result'.status = "Panic"
               /\ instruction_packs' = instruction_packs
               /\ current_instruction_pack' = current_instruction_pack
          ELSE LET n == Len(instruction_packs)
                          + (IF is_current_pack_empty THEN 0 ELSE 1)
               IN /\ result'.status \in {"Some", "None"}
                  /\ current_instruction_pack'.pack = <<>>
                  /\ result'.status = "Some" =>
                        (n > 0 /\ Len(instruction_packs') < n)
                  /\ result'.status = "None" =>
                        (n = 0 /\ instruction_packs' = <<>>)]_vars

\* build_next_combined took two of three committed packs; one pack is left
\* for the next call
C38_Witness ==
    /\ result = ResN("build_next_combined", "Some", 0, 2)
    /\ Len(instruction_packs) = 1
    /\ current_instruction_pack.pack = <<>>

=============================================================================
